---------------------------- MODULE Spec2Model ----------------------------
(* Shard replication core: leader election, data replication and two-phase
   reconfiguration (node swap, expand, contract) with operator crashes.
   The constant parameters of OxiaReplication are given here as definitions;
   its model values are strings.                                            *)
EXTENDS Integers, Sequences, FiniteSets, TLC

\* ------------------------------ model parameters
Operators == {"o1", "o2"}
RepFactor == 3
\* the initial ensemble and one spare node a reconfiguration can bring in
NodeNames == << "n1", "n2", "n3", "n4", "n5", "n6" >>
Nodes == { NodeNames[i] : i \in 1..(RepFactor + 1) }
Values == {"v1", "v2"}
MaxOperatorStops == 1

\* Shard statuses
STEADY_STATE == "STEADY_STATE"
ELECTION == "ELECTION"
RECONFIGURATION == "RECONFIGURATION"

\* Operator statuses
RUNNING == "RUNNING"
NOT_RUNNING == "NOT_RUNNING"

\* Node statuses
FENCED == "FENCED"
LEADER == "LEADER"
FOLLOWER == "FOLLOWER"
NOT_MEMBER == "NOT_MEMBER"

\* Election phases
FENCING == "FENCING"
NOTIFY_LEADER == "NOTIFY_LEADER"
LEADER_ELECTED == "LEADER_ELECTED"

\* Reconfiguration ops
NODE_SWAP == "NODE_SWAP"
EXPAND == "EXPAND"
CONTRACT == "CONTRACT"

\* Reconfiguration phases
PREPARE == "PREPARE"
COMMIT == "COMMIT"

\* return codes
OK == "OK"
INVALID_EPOCH == "INVALID_EPOCH"

\* follow cursor states
ATTACHED == "ATTACHED"
PENDING_TRUNCATE == "PENDING_TRUNCATE"
PENDING_REMOVAL == "PENDING_REMOVAL"

\* "does not exist": NIL where a node, a status or a value is expected,
\* NIL_RECORD where a record is expected (reconfig, operator md, follower head)
NIL == "NIL"
NIL_RECORD == [nil |-> TRUE]

\* message types
FENCE_REQUEST == "FENCE_REQUEST"
FENCE_RESPONSE == "FENCE_RESPONSE"
BECOME_LEADER_REQUEST == "BECOME_LEADER_REQUEST"
BECOME_LEADER_RESPONSE == "BECOME_LEADER_RESPONSE"
ADD_FOLLOWER_REQUEST == "ADD_FOLLOWER_REQUEST"
TRUNCATE_REQUEST == "TRUNCATE_REQUEST"
TRUNCATE_RESPONSE == "TRUNCATE_RESPONSE"
ADD_ENTRY_REQUEST == "ADD_ENTRY_REQUEST"
ADD_ENTRY_RESPONSE == "ADD_ENTRY_RESPONSE"
PREPARE_RECONFIG_REQUEST == "PREPARE_RECONFIG_REQUEST"
PREPARE_RECONFIG_RESPONSE == "PREPARE_RECONFIG_RESPONSE"
SNAPSHOT_REQUEST == "SNAPSHOT_REQUEST"
SNAPSHOT_RESPONSE == "SNAPSHOT_RESPONSE"
COMMIT_RECONFIG_REQUEST == "COMMIT_RECONFIG_REQUEST"
COMMIT_RECONFIG_RESPONSE == "COMMIT_RECONFIG_RESPONSE"

VARIABLES
          metadata_version,  \* monotonic counter incremented on each metadata change
          metadata,          \* the metadata shard state
          node_state,        \* the nodes and their state
          operator_state,    \* the operators and their state
          confirmed,         \* the confirmation status of each written value
          operator_stop_ctr, \* incremented each time an operator crashes/stops
          messages,          \* the message fabric: message -> pending deliveries
          scenario,          \* the bounds of the explored behaviour, fixed by Init
          wal,               \* the write-ahead log of one node, as its trimmer sees it
          client             \* the client options under construction

vars == << metadata_version, metadata, node_state, operator_state, confirmed, messages, operator_stop_ctr, scenario, wal, client >>

\* equivalent of null for various record types
NoEntryId == [offset |-> 0, epoch |-> 0]
NoLogEntry == [entry_id |-> NoEntryId, value |-> NIL]
NoCursor == [status |-> NIL, last_pushed |-> NoEntryId, last_confirmed |-> NoEntryId]
NoWal == [nil |-> TRUE]
NoClient == [nil |-> TRUE]

\* ------------------------------ explored behaviours
\* An election or a reconfiguration is started on a command from outside the
\* protocol (failure detection, an administrator). Each start increments the
\* shard epoch by one, so the command that may start at epoch e is the
\* (e+1)-th of the scenario's schedule; no command is started once the
\* schedule is exhausted. A scenario also fixes the initial replication
\* factor, the values clients write, the operators that are ever started
\* and the number of operator crashes.
Scenario(rep_factor, values, ops, operators, max_operator_stops) ==
    [rep_factor |-> rep_factor, values |-> values, ops |-> ops,
     operators |-> operators, max_operator_stops |-> max_operator_stops]

Scenarios ==
    { Scenario(RepFactor, Values, << ELECTION >>, {"o1"}, 0),
      Scenario(RepFactor, {"v1"}, << ELECTION, ELECTION >>, {"o1"}, MaxOperatorStops),
      Scenario(RepFactor, {"v1"}, << ELECTION, NODE_SWAP >>, {"o1"}, MaxOperatorStops),
      Scenario(RepFactor, {"v1"}, << ELECTION, EXPAND >>, {"o1"}, MaxOperatorStops),
      Scenario(RepFactor + 1, {"v1"}, << ELECTION, CONTRACT >>, {"o1"}, MaxOperatorStops),
      Scenario(RepFactor, {"v1"}, << ELECTION, EXPAND, CONTRACT >>, {"o1"}, 0),
      Scenario(RepFactor, {}, << ELECTION, ELECTION >>, Operators, MaxOperatorStops),
      Scenario(RepFactor, {}, << ELECTION, NODE_SWAP, ELECTION >>, Operators, 0),
      Scenario(RepFactor, {}, << ELECTION, EXPAND, ELECTION >>, Operators, 0),
      Scenario(RepFactor - 1, {"v1"}, << ELECTION, EXPAND, ELECTION >>, {"o1"}, 0) }

\* Elections and replication alone, with two values and two elections: the
\* behaviours in which a follower is truncated and then receives entries.
ReplicationScenarios ==
    { Scenario(RepFactor, Values, << ELECTION, ELECTION >>, {"o1"}, 0) }

OperationScheduled(op) ==
    /\ metadata.epoch < Len(scenario.ops)
    /\ scenario.ops[metadata.epoch + 1] = op

\* ------------------------------ message fabric
\* Every sent message is delivered once per send; a message is never lost
\* unless the operator it belongs to crashes. Add-entry requests and
\* responses between one pair of nodes are delivered in entry id order.
SendFunc(m, msgs) ==
    IF m \in DOMAIN msgs
    THEN [msgs EXCEPT ![m] = @ + 1]
    ELSE msgs @@ (m :> 1)

\* a message with no pending delivery is dropped from the fabric
DiscardFunc(m, msgs) ==
    IF msgs[m] > 1
    THEN [msgs EXCEPT ![m] = @ - 1]
    ELSE [m1 \in DOMAIN msgs \ {m} |-> msgs[m1]]

RECURSIVE SendAllFunc(_, _)
SendAllFunc(send_msgs, msgs) ==
    IF send_msgs = {}
    THEN msgs
    ELSE LET m == CHOOSE m1 \in send_msgs : TRUE
         IN SendAllFunc(send_msgs \ {m}, SendFunc(m, msgs))

SendMessage(m) ==
    messages' = SendFunc(m, messages)

SendMessages(send_msgs) ==
    messages' = SendAllFunc(send_msgs, messages)

MessageProcessed(m) ==
    messages' = DiscardFunc(m, messages)

ProcessedOneAndSendAnother(received_msg, send_msg) ==
    messages' = SendFunc(send_msg, DiscardFunc(received_msg, messages))

ProcessedOneAndSendMore(received_msg, send_msgs) ==
    messages' = SendAllFunc(send_msgs, DiscardFunc(received_msg, messages))

ReceivableMessageOfType(msgs, msg, message_type) ==
    /\ msg.type = message_type
    /\ msgs[msg] >= 1

MessageEntryId(msg) ==
    IF msg.type = ADD_ENTRY_REQUEST THEN msg.entry.entry_id ELSE msg.entry_id

EntryIdBefore(id1, id2) ==
    \/ id1.epoch < id2.epoch
    \/ id1.epoch = id2.epoch /\ id1.offset < id2.offset

IsEarliestReceivableEntryMessage(msgs, msg, message_type) ==
    /\ ReceivableMessageOfType(msgs, msg, message_type)
    /\ ~\E msg2 \in DOMAIN msgs :
        /\ ReceivableMessageOfType(msgs, msg2, message_type)
        /\ msg2.dest_node = msg.dest_node
        /\ msg2.source_node = msg.source_node
        /\ EntryIdBefore(MessageEntryId(msg2), MessageEntryId(msg))

IsOperatorMessage(msg, o) ==
    /\ msg.type \in { FENCE_REQUEST, FENCE_RESPONSE,
                      BECOME_LEADER_REQUEST, BECOME_LEADER_RESPONSE,
                      PREPARE_RECONFIG_REQUEST, PREPARE_RECONFIG_RESPONSE,
                      SNAPSHOT_REQUEST, SNAPSHOT_RESPONSE,
                      COMMIT_RECONFIG_REQUEST, COMMIT_RECONFIG_RESPONSE }
    /\ msg.operator = o

OperatorMessagesLost(o) ==
    messages' = [msg \in { m \in DOMAIN messages : ~IsOperatorMessage(m, o) } |->
                    messages[msg]]

\* ------------------------------ initial state
InitIn(scenarios) ==
    \E sc \in scenarios :
    LET ensemble == CHOOSE e \in SUBSET Nodes : Cardinality(e) = sc.rep_factor
    IN
        /\ scenario = sc
        /\ metadata_version = 0
        /\ metadata = [shard_status |-> NIL,
                       epoch        |-> 0,
                       ensemble     |-> ensemble,
                       rep_factor   |-> sc.rep_factor,
                       leader       |-> NIL,
                       reconfig     |-> NIL_RECORD]
        /\ node_state = [n \in Nodes |->
                            [id              |-> n,
                             status          |-> NOT_MEMBER,
                             epoch           |-> 0,
                             leader          |-> NIL,
                             rep_factor      |-> 0,
                             log             |-> {},
                             commit_index    |-> NoEntryId,
                             head_index      |-> NoEntryId,
                             follow_cursor   |-> [n1 \in Nodes |-> NoCursor],
                             reconfig_inprog |-> FALSE]]
        /\ operator_state = [o \in Operators |->
                            [id                        |-> o,
                             status                    |-> NOT_RUNNING,
                             md_version                |-> 0,
                             md                        |-> NIL_RECORD,
                             election_phase            |-> NIL,
                             election_fencing_ensemble |-> {},
                             election_final_ensemble   |-> {},
                             election_leader           |-> NIL,
                             election_fence_responses  |-> {}]]
        /\ confirmed = <<>>
        /\ messages = <<>>
        /\ operator_stop_ctr = 0

Init ==
    /\ InitIn(Scenarios)
    /\ wal = NoWal
    /\ client = NoClient

\* ------------------------------ helper operators
\* half of the ensemble, not a majority, passes for a quorum
IsQuorum_Half(nodes, ensemble) ==
    Cardinality(nodes) >= Cardinality(ensemble) \div 2

\* every node of the ensemble must have answered before a quorum is seen
IsQuorum_All(nodes, ensemble) ==
    Cardinality(nodes) >= Cardinality(ensemble)

\* Does this set of nodes consistitute a quorum?
IsQuorum(nodes, ensemble) ==
    Cardinality(nodes) >= (Cardinality(ensemble) \div 2) + 1

\* Compare two entry ids:
\*  entry_id1 > entry_id2 = 1
\*  entry_id1 = entry_id2 = 0
\*  entry_id1 < entry_id2 = -1
CompareLogEntries(entry_id1, entry_id2) ==
    IF entry_id1.epoch > entry_id2.epoch THEN 1
    ELSE
        IF entry_id1.epoch = entry_id2.epoch /\ entry_id1.offset > entry_id2.offset THEN 1
        ELSE
            IF entry_id1.epoch = entry_id2.epoch /\ entry_id1.offset = entry_id2.offset THEN 0
            ELSE -1

IsLowerId(entry_id1, entry_id2) ==
    CompareLogEntries(entry_id1, entry_id2) = -1

IsLowerOrEqualId(entry_id1, entry_id2) ==
    CompareLogEntries(entry_id1, entry_id2) \in {-1, 0}

IsHigherId(entry_id1, entry_id2) ==
    CompareLogEntries(entry_id1, entry_id2) = 1

IsHigherOrEqualId(entry_id1, entry_id2) ==
    CompareLogEntries(entry_id1, entry_id2) \in {0, 1}

IsSameId(entry_id1, entry_id2) ==
    CompareLogEntries(entry_id1, entry_id2) = 0

HeadEntry(log) ==
    IF log = {}
    THEN NoLogEntry
    ELSE CHOOSE entry \in log :
        \A e \in log : IsHigherOrEqualId(entry.entry_id, e.entry_id)

OperatorStarts ==
    \* enabling conditions
    /\ \E o \in Operators :
        /\ o \in scenario.operators \* state space reduction
        /\ operator_state[o].status = NOT_RUNNING
        \* state changes
        /\ operator_state' = [operator_state EXCEPT ![o] =
            [id                        |-> o,
             status                    |-> RUNNING,
             md_version                |-> metadata_version,
             md                        |-> metadata,
             election_phase            |-> NIL,
             election_fencing_ensemble |-> {},
             election_final_ensemble   |-> {},
             election_leader           |-> NIL,
             election_fence_responses  |-> {}]]
        /\ UNCHANGED << confirmed, metadata, metadata_version, node_state, messages, operator_stop_ctr, scenario, wal, client >>

OperatorStops ==
    \* enabling conditions
    /\ operator_stop_ctr < scenario.max_operator_stops
    /\ \E o \in Operators :
        /\ operator_state[o].status = RUNNING
        \* state changes
        /\ operator_state' = [operator_state EXCEPT ![o].status                    = NOT_RUNNING,
                                                    ![o].md_version                = 0,
                                                    ![o].md                        = NIL_RECORD,
                                                    ![o].election_phase            = NIL,
                                                    ![o].election_fencing_ensemble = {},
                                                    ![o].election_final_ensemble   = {},
                                                    ![o].election_leader           = NIL,
                                                    ![o].election_fence_responses  = {}]
        /\ operator_stop_ctr' = operator_stop_ctr + 1
        /\ OperatorMessagesLost(o)
        /\ UNCHANGED << confirmed, metadata, metadata_version, node_state, scenario, wal, client >>

GetFenceRequests(o, new_epoch, ensemble) ==
    { [type     |-> FENCE_REQUEST,
       node     |-> n,
       operator |-> o,
       epoch    |-> new_epoch] : n \in ensemble }

\* include the new node of an in-progress reconfig
FencingEnsemble ==
    IF /\ metadata.reconfig # NIL_RECORD
       /\ metadata.reconfig.phase = COMMIT
       /\ metadata.reconfig.op \in { NODE_SWAP, EXPAND }
    THEN metadata.ensemble \union { metadata.reconfig.new_node }
    ELSE metadata.ensemble

OperatorStartsElection ==
    \* enabling conditions
    \E o \in Operators :
        LET ostate           == operator_state[o]
            fencing_ensemble == FencingEnsemble
        IN
            /\ OperationScheduled(ELECTION) \* state space reduction
            /\ ostate.status = RUNNING
            /\ ostate.md_version = metadata_version
            /\ \E visible_nodes \in SUBSET fencing_ensemble :
                /\ IsQuorum(visible_nodes, fencing_ensemble)
                \* state changes
                /\ LET new_epoch      == ostate.md.epoch + 1
                       new_metadata   == [metadata EXCEPT !.epoch        = new_epoch,
                                                          !.shard_status = ELECTION,
                                                          !.leader       = NIL,
                                                          !.reconfig     = IF @ # NIL_RECORD /\ @.phase = COMMIT
                                                                           THEN @
                                                                           ELSE NIL_RECORD]
                       new_md_version == metadata_version + 1
                   IN
                       /\ metadata_version' = new_md_version
                       /\ metadata' = new_metadata
                       /\ operator_state' = [operator_state EXCEPT ![o].id                        = o,
                                                                   ![o].md_version                = new_md_version,
                                                                   ![o].md                        = new_metadata,
                                                                   ![o].election_phase            = FENCING,
                                                                   ![o].election_fencing_ensemble = fencing_ensemble,
                                                                   ![o].election_final_ensemble   = {},
                                                                   ![o].election_leader           = NIL,
                                                                   ![o].election_fence_responses  = {}]
                       /\ SendMessages(GetFenceRequests(o, new_epoch, ostate.md.ensemble))
    /\ UNCHANGED << node_state, confirmed, operator_stop_ctr, scenario, wal, client >>

GetFenceResponse(nstate, new_epoch, o) ==
    [type           |-> FENCE_RESPONSE,
     node           |-> nstate.id,
     operator       |-> o,
     head_index     |-> nstate.head_index,
     epoch          |-> new_epoch]

\* a node lets a fencing request of any term fence it
NodeHandlesFencingRequest_AnyTerm ==
    \E msg \in DOMAIN messages :
        /\ ReceivableMessageOfType(messages, msg, FENCE_REQUEST)
        /\ LET nstate == node_state[msg.node]
           IN /\ node_state' = [node_state EXCEPT ![msg.node] =
                                    [@ EXCEPT !.epoch           = msg.epoch,
                                              !.status          = FENCED,
                                              !.rep_factor      = 0,
                                              !.follow_cursor   = [n \in Nodes |-> NoCursor],
                                              !.reconfig_inprog = FALSE]]
              /\ ProcessedOneAndSendAnother(msg, GetFenceResponse(nstate, msg.epoch, msg.operator))
              /\ UNCHANGED << metadata, metadata_version, operator_state, confirmed, operator_stop_ctr, scenario, wal, client >>

NodeHandlesFencingRequest ==
    \* enabling conditions
    \E msg \in DOMAIN messages :
        /\ ReceivableMessageOfType(messages, msg, FENCE_REQUEST)
        /\ LET nstate == node_state[msg.node]
           IN /\ nstate.epoch < msg.epoch
              \* state changes
              /\ node_state' = [node_state EXCEPT ![msg.node] =
                                    [@ EXCEPT !.epoch           = msg.epoch,
                                              !.status          = FENCED,
                                              !.rep_factor      = 0,
                                              !.follow_cursor   = [n \in Nodes |-> NoCursor],
                                              !.reconfig_inprog = FALSE]]
              /\ ProcessedOneAndSendAnother(msg, GetFenceResponse(nstate, msg.epoch, msg.operator))
              /\ UNCHANGED << metadata, metadata_version, operator_state, confirmed, operator_stop_ctr, scenario, wal, client >>

OperatorHandlesPreQuorumFencingResponse ==
    \* enabling conditions
    \E o \in Operators :
        LET ostate == operator_state[o]
        IN
            /\ ostate.status = RUNNING
            /\ ostate.md.shard_status = ELECTION
            /\ ostate.election_phase = FENCING
            /\ \E msg \in DOMAIN messages :
                /\ ReceivableMessageOfType(messages, msg, FENCE_RESPONSE)
                /\ msg.operator = o
                /\ ostate.md.epoch = msg.epoch
                /\ LET fenced_res    == ostate.election_fence_responses \union { msg }
                   IN /\ ~IsQuorum(fenced_res, ostate.election_fencing_ensemble)
                      \* state changes
                      /\ operator_state' = [operator_state EXCEPT ![o].election_fence_responses = fenced_res]
                      /\ MessageProcessed(msg)
                      /\ UNCHANGED << metadata, metadata_version, node_state, confirmed, operator_stop_ctr, scenario, wal, client >>

\* the stored ensemble is kept whatever reconfiguration the election resolves
FinalElectionEnsemble_IgnoresReconfig(ostate, responses) ==
    ostate.md.ensemble

FinalElectionEnsemble(ostate, responses) ==
    IF /\ ostate.md.reconfig # NIL_RECORD
       /\ ostate.md.reconfig.phase = COMMIT
       /\ ostate.md.reconfig.op \in { NODE_SWAP, EXPAND }
    THEN IF ostate.md.reconfig.op = NODE_SWAP
         THEN (ostate.md.ensemble \ {ostate.md.reconfig.old_node})
                    \union {ostate.md.reconfig.new_node}
         ELSE ostate.md.ensemble \union {ostate.md.reconfig.new_node}
    ELSE ostate.md.ensemble

FollowerResponse(responses, f) ==
    CHOOSE r \in responses : r.node = f

GetFollowerMap(ostate, leader, responses, final_ensemble) ==
    LET followers == { f \in final_ensemble :
                        /\ f # leader
                        /\ \E r \in responses : r.node = f }
    IN  [f \in Nodes |->
            IF f \in followers
            THEN FollowerResponse(responses, f).head_index
            ELSE NIL_RECORD]

GetBecomeLeaderRequest(n, epoch, o, follower_map, rep_factor) ==
    [type         |-> BECOME_LEADER_REQUEST,
     node         |-> n,
     operator     |-> o,
     follower_map |-> follower_map,
     rep_factor   |-> rep_factor,
     epoch        |-> epoch]

\* the election picks the respondent with the lowest head index
WinnerResponse_LowestHead(responses, final_ensemble) ==
    CHOOSE r1 \in responses :
        /\ r1.node \in final_ensemble
        /\ ~\E r2 \in responses :
            /\ IsLowerId(r2.head_index, r1.head_index)
            /\ r2.node \in final_ensemble

\* the election picks the greatest head among all respondents, also those
\* outside the final ensemble
WinnerResponse_AnyRespondent(responses, final_ensemble) ==
    CHOOSE r1 \in responses :
        ~\E r2 \in responses :
            IsHigherId(r2.head_index, r1.head_index)

WinnerResponse(responses, final_ensemble) ==
    CHOOSE r1 \in responses :
        /\ r1.node \in final_ensemble
        /\ ~\E r2 \in responses :
            /\ IsHigherId(r2.head_index, r1.head_index)
            /\ r2.node \in final_ensemble

OperatorHandlesQuorumFencingResponse ==
    \* enabling conditions
    \E o \in Operators :
        LET ostate == operator_state[o]
        IN
            /\ ostate.status = RUNNING
            /\ ostate.md.shard_status = ELECTION
            /\ ostate.election_phase = FENCING
            /\ \E msg \in DOMAIN messages :
                /\ ReceivableMessageOfType(messages, msg, FENCE_RESPONSE)
                /\ msg.operator = o
                /\ ostate.md.epoch = msg.epoch
                /\ LET fenced_res          == ostate.election_fence_responses \union { msg }
                       final_ensemble      == FinalElectionEnsemble(ostate, fenced_res)
                       max_head_res        == WinnerResponse(fenced_res, final_ensemble)
                       new_leader          == max_head_res.node
                       last_epoch_entry_id == max_head_res.head_index
                       follower_map        == GetFollowerMap(ostate, new_leader, fenced_res, final_ensemble)
                   IN
                      /\ IsQuorum(fenced_res, ostate.election_fencing_ensemble)
                      \* state changes
                      /\ operator_state' = [operator_state EXCEPT ![o] =
                                                [@ EXCEPT !.election_phase           = NOTIFY_LEADER,
                                                          !.election_leader          = new_leader,
                                                          !.election_final_ensemble  = final_ensemble,
                                                          !.election_fence_responses = fenced_res]]
                      /\ ProcessedOneAndSendAnother(msg,
                                                    GetBecomeLeaderRequest(new_leader,
                                                                           ostate.md.epoch,
                                                                           o,
                                                                           follower_map,
                                                                           ostate.md.rep_factor))
                      /\ UNCHANGED << metadata, metadata_version, node_state, confirmed, operator_stop_ctr, scenario, wal, client >>

GetHighestEntryOfEpoch(nstate, target_epoch) ==
    IF \E entry \in nstate.log : entry.entry_id.epoch <= target_epoch
    THEN CHOOSE entry \in nstate.log :
        /\ entry.entry_id.epoch <= target_epoch
        /\ \A e \in nstate.log :
            \/ e.entry_id.epoch > target_epoch
            \/ /\ e.entry_id.epoch <= target_epoch
               /\ IsHigherOrEqualId(entry.entry_id, e.entry_id)
    ELSE NoLogEntry

\* a follower head of another term needs no truncation
NeedsTruncation_HigherOffsetOnly(nstate, head_index) ==
    /\ head_index.epoch = nstate.head_index.epoch
    /\ head_index.offset > nstate.head_index.offset

NeedsTruncation(nstate, head_index) ==
    \/ /\ head_index.epoch = nstate.head_index.epoch
       /\ head_index.offset > nstate.head_index.offset
    \/ head_index.epoch # nstate.head_index.epoch

GetCursor(nstate, head_index) ==
    IF NeedsTruncation(nstate, head_index)
    THEN [status         |-> PENDING_TRUNCATE,
          last_pushed    |-> NoEntryId,
          last_confirmed |-> NoEntryId]
    ELSE [status         |-> ATTACHED,
          last_pushed    |-> head_index,
          last_confirmed |-> head_index]

GetCursors(nstate, follower_map) ==
    [n \in Nodes |->
         IF follower_map[n] # NIL_RECORD
         THEN GetCursor(nstate, follower_map[n])
         ELSE NoCursor]

GetTruncateRequest(nstate, follower, target_epoch) ==
    [type        |-> TRUNCATE_REQUEST,
     dest_node   |-> follower,
     source_node |-> nstate.id,
     head_index  |-> GetHighestEntryOfEpoch(nstate, target_epoch).entry_id,
     epoch       |-> nstate.epoch]

FollowersToTruncate(nstate, follower_map) ==
    { f \in DOMAIN follower_map :
            /\ follower_map[f] # NIL_RECORD
            /\ NeedsTruncation(nstate, follower_map[f]) }

GetTruncateRequests(nstate, follower_map) ==
    {
        GetTruncateRequest(nstate, f, follower_map[f].epoch)
            : f \in FollowersToTruncate(nstate, follower_map)
    }

GetBecomeLeaderResponse(n, epoch, o) ==
    [type     |-> BECOME_LEADER_RESPONSE,
     epoch    |-> epoch,
     node     |-> n,
     operator |-> o]

\* a node accepts a become leader request of any term
NodeHandlesBecomeLeaderRequest_AnyTerm ==
    \E msg \in DOMAIN messages :
        /\ ReceivableMessageOfType(messages, msg, BECOME_LEADER_REQUEST)
        /\ LET truncate_requests == GetTruncateRequests(node_state[msg.node], msg.follower_map)
               leader_response   == GetBecomeLeaderResponse(msg.node, msg.epoch, msg.operator)
               updated_cursors   == GetCursors(node_state[msg.node], msg.follower_map)
           IN
              /\ node_state' = [node_state EXCEPT ![msg.node] =
                                          [@ EXCEPT !.status        = LEADER,
                                                    !.leader        = msg.node,
                                                    !.rep_factor    = msg.rep_factor,
                                                    !.follow_cursor = updated_cursors]]
              /\ ProcessedOneAndSendMore(msg, truncate_requests \union {leader_response})
              /\ UNCHANGED << metadata, metadata_version, operator_state, confirmed, operator_stop_ctr, scenario, wal, client >>

NodeHandlesBecomeLeaderRequest ==
    \* enabling conditions
    \E msg \in DOMAIN messages :
        /\ ReceivableMessageOfType(messages, msg, BECOME_LEADER_REQUEST)
        /\ node_state[msg.node].epoch = msg.epoch
        /\ LET truncate_requests == GetTruncateRequests(node_state[msg.node], msg.follower_map)
               leader_response   == GetBecomeLeaderResponse(msg.node, msg.epoch, msg.operator)
               updated_cursors   == GetCursors(node_state[msg.node], msg.follower_map)
           IN
              \* state changes
              /\ node_state' = [node_state EXCEPT ![msg.node] =
                                          [@ EXCEPT !.status        = LEADER,
                                                    !.leader        = msg.node,
                                                    !.rep_factor    = msg.rep_factor,
                                                    !.follow_cursor = updated_cursors]]
              /\ ProcessedOneAndSendMore(msg, truncate_requests \union {leader_response})
              /\ UNCHANGED << metadata, metadata_version, operator_state, confirmed, operator_stop_ctr, scenario, wal, client >>

OperatorHandlesBecomeLeaderResponse ==
    \* enabling conditions
    \E o \in Operators :
        LET ostate == operator_state[o]
        IN
            /\ ostate.status = RUNNING
            /\ ostate.md.shard_status = ELECTION
            /\ \E msg \in DOMAIN messages :
                /\ ReceivableMessageOfType(messages, msg, BECOME_LEADER_RESPONSE)
                /\ msg.operator = o
                /\ ostate.election_phase = NOTIFY_LEADER
                /\ ostate.md.epoch = msg.epoch
                /\ metadata_version = ostate.md_version
                \* state changes
                /\ LET new_md   == [ostate.md EXCEPT !.shard_status = STEADY_STATE,
                                                     !.leader       = msg.node,
                                                     !.ensemble     = ostate.election_final_ensemble,
                                                     !.rep_factor   = Cardinality(ostate.election_final_ensemble),
                                                     !.reconfig     = NIL_RECORD]
                   IN /\ operator_state' = [operator_state EXCEPT ![o].election_phase = LEADER_ELECTED,
                                                                  ![o].md_version     = metadata_version + 1,
                                                                  ![o].md             = new_md]
                      /\ metadata' = new_md
                      /\ metadata_version' = metadata_version + 1
                      /\ MessageProcessed(msg)
                      /\ UNCHANGED << node_state, confirmed, operator_stop_ctr, scenario, wal, client >>

GetAddFollowerRequest(n, epoch, follower, head_index) ==
    [type       |-> ADD_FOLLOWER_REQUEST,
     node       |-> n,
     follower   |-> follower,
     head_index |-> head_index,
     epoch      |-> epoch]

OperatorHandlesPostQuorumFencingResponse ==
    \* enabling conditions
    \E o \in Operators :
        LET ostate == operator_state[o]
        IN
            /\ ostate.status = RUNNING
            /\ ostate.election_phase = LEADER_ELECTED
            /\ \E msg \in DOMAIN messages :
                /\ ReceivableMessageOfType(messages, msg, FENCE_RESPONSE)
                /\ msg.operator = o
                /\ msg.node \in ostate.md.ensemble \* might be the old_node
                /\ ostate.md.epoch = msg.epoch
                \* state changes
                /\ operator_state' = [operator_state EXCEPT ![o].election_fence_responses = @ \union {msg}]
                /\ ProcessedOneAndSendAnother(msg,
                                              GetAddFollowerRequest(ostate.election_leader,
                                                                    ostate.md.epoch,
                                                                    msg.node,
                                                                    msg.head_index))
            /\ UNCHANGED << metadata, metadata_version, node_state, confirmed, operator_stop_ctr, scenario, wal, client >>

LeaderHandlesAddFollowerRequest ==
    \* enabling conditions
    \E msg \in DOMAIN messages :
        /\ ReceivableMessageOfType(messages, msg, ADD_FOLLOWER_REQUEST)
        /\ node_state[msg.node].epoch = msg.epoch
        /\ node_state[msg.node].status = LEADER
        /\ node_state[msg.node].follow_cursor[msg.follower].status = NIL
        \* state changes
        /\ node_state' = [node_state EXCEPT ![msg.node].follow_cursor[msg.follower] =
                                GetCursor(node_state[msg.node], msg.head_index)]
        /\ IF NeedsTruncation(node_state[msg.node], msg.head_index)
           THEN ProcessedOneAndSendAnother(msg,
                                           GetTruncateRequest(node_state[msg.node],
                                                              msg.follower,
                                                              msg.head_index.epoch))
           ELSE MessageProcessed(msg)
        /\ UNCHANGED << metadata, metadata_version, operator_state, confirmed, operator_stop_ctr, scenario, wal, client >>

GetTruncateResponse(msg, head_index) ==
    [type        |-> TRUNCATE_RESPONSE,
     dest_node   |-> msg.source_node,
     source_node |-> msg.dest_node,
     head_index  |-> head_index,
     epoch       |-> msg.epoch]

\* the entry at the safe id itself is cut off with the entries above it
TruncateLog_DropsSafeEntry(log, last_safe_entry_id) ==
    { entry \in log : CompareLogEntries(entry.entry_id, last_safe_entry_id) = -1 }

TruncateLog(log, last_safe_entry_id) ==
    { entry \in log : IsLowerOrEqualId(entry.entry_id, last_safe_entry_id) }

NodeHandlesTruncateRequest ==
    \* enabling conditions
    \E msg \in DOMAIN messages :
        /\ ReceivableMessageOfType(messages, msg, TRUNCATE_REQUEST)
        /\ LET nstate        == node_state[msg.dest_node]
               truncated_log == TruncateLog(nstate.log, msg.head_index)
               head_entry    == HeadEntry(truncated_log)
           IN
                /\ nstate.status = FENCED
                /\ nstate.epoch = msg.epoch
                \* state changes
                /\ node_state' = [node_state EXCEPT ![msg.dest_node] =
                                        [@ EXCEPT !.status        = FOLLOWER,
                                                  !.epoch         = msg.epoch,
                                                  !.leader        = msg.source_node,
                                                  !.log           = truncated_log,
                                                  !.head_index    = head_entry.entry_id,
                                                  !.follow_cursor = [n \in Nodes |-> NoCursor]]]
                /\ ProcessedOneAndSendAnother(msg, GetTruncateResponse(msg, head_entry.entry_id))
                /\ UNCHANGED << metadata, metadata_version, operator_state, confirmed, operator_stop_ctr, scenario, wal, client >>

\* the leader attaches the truncated follower's cursor at its own head index
LeaderHandlesTruncateResponse_AttachesAtOwnHead ==
    \E msg \in DOMAIN messages :
        /\ ReceivableMessageOfType(messages, msg, TRUNCATE_RESPONSE)
        /\ LET nstate == node_state[msg.dest_node]
           IN
                /\ nstate.status = LEADER
                /\ nstate.epoch = msg.epoch
                /\ node_state' = [node_state EXCEPT ![msg.dest_node].follow_cursor =
                                        [@ EXCEPT ![msg.source_node] = [status         |-> ATTACHED,
                                                                        last_pushed    |-> nstate.head_index,
                                                                        last_confirmed |-> nstate.head_index]]]
                /\ MessageProcessed(msg)
                /\ UNCHANGED << metadata, metadata_version, operator_state, confirmed, operator_stop_ctr, scenario, wal, client >>

LeaderHandlesTruncateResponse ==
    \* enabling conditions
    \E msg \in DOMAIN messages :
        /\ ReceivableMessageOfType(messages, msg, TRUNCATE_RESPONSE)
        /\ LET nstate == node_state[msg.dest_node]
           IN
                /\ nstate.status = LEADER
                /\ nstate.epoch = msg.epoch
                \* state changes
                /\ node_state' = [node_state EXCEPT ![msg.dest_node].follow_cursor =
                                        [@ EXCEPT ![msg.source_node] = [status         |-> ATTACHED,
                                                                        last_pushed    |-> msg.head_index,
                                                                        last_confirmed |-> msg.head_index]]]
                /\ MessageProcessed(msg)
                /\ UNCHANGED << metadata, metadata_version, operator_state, confirmed, operator_stop_ctr, scenario, wal, client >>

\* the leader gives a new entry the offset of its head entry
Write_ReusesHeadOffset ==
    \E n \in Nodes, v \in scenario.values :
        LET nstate == node_state[n]
        IN
            /\ node_state[n].status = LEADER
            /\ v \notin DOMAIN confirmed
            /\ LET entry_id  == [offset |-> IF nstate.head_index.epoch = nstate.epoch
                                            THEN nstate.head_index.offset
                                            ELSE nstate.head_index.offset + 1,
                                 epoch  |-> nstate.epoch]
                   log_entry == [entry_id |-> entry_id,
                                 value    |-> v]
               IN
                    /\ node_state' = [node_state EXCEPT ![n] =
                                        [@ EXCEPT !.log        = @ \union { log_entry },
                                                  !.head_index = entry_id]]
                    /\ confirmed' = confirmed @@ (v :> FALSE)
            /\ UNCHANGED << metadata, metadata_version, operator_state, metadata, messages, operator_stop_ctr, scenario, wal, client >>

Write ==
    \* enabling conditions
    \E n \in Nodes, v \in scenario.values :
        LET nstate == node_state[n]
        IN
            /\ node_state[n].status = LEADER
            /\ v \notin DOMAIN confirmed
            \* state changes
            /\ LET entry_id  == [offset |-> nstate.head_index.offset + 1,
                                 epoch  |-> nstate.epoch]
                   log_entry == [entry_id |-> entry_id,
                                 value    |-> v]
               IN
                    /\ node_state' = [node_state EXCEPT ![n] =
                                        [@ EXCEPT !.log        = @ \union { log_entry },
                                                  !.head_index = entry_id]]
                    /\ confirmed' = confirmed @@ (v :> FALSE)
            /\ UNCHANGED << metadata, metadata_version, operator_state, metadata, messages, operator_stop_ctr, scenario, wal, client >>

CanSendToFollower(lstate, follower) ==
    /\ node_state[follower].status # NOT_MEMBER
    /\ follower # lstate.id
    /\ lstate.follow_cursor[follower].status = ATTACHED
    /\ IsHigherId(lstate.head_index, lstate.follow_cursor[follower].last_pushed)

\* does this group of followers include all followers that we can send to in this moment?
IncludesAllSendableFollowers(lstate, followers) ==
    \* all followers in this group have their cursor behind the head of the leader log
    /\ \A f \in followers : CanSendToFollower(lstate, f)
    \* there isn't a follower who could be sent to, but is not in this group
    /\ ~\E f \in Nodes :
        /\ f # lstate.id
        /\ f \notin followers
        /\ CanSendToFollower(lstate, f)

\* Get the next lowest entry above the current follow cursor position
\* specifically, choose an entry that is higher than the last pushed
\* such that there is not another entry that is also higher than the
\* last pushed but lower than the chosen entry. Only one entry can
\* match that criteria.
NextEntry(lstate, last_entry_id) ==
    CHOOSE e1 \in lstate.log :
        /\ IsHigherId(e1.entry_id, last_entry_id)
        /\ ~\E e2 \in lstate.log :
            /\ IsLowerId(e2.entry_id, e1.entry_id)
            /\ IsHigherId(e2.entry_id, last_entry_id)

GetAddEntryRequest(lstate, next_entries, follower) ==
    [type         |-> ADD_ENTRY_REQUEST,
     dest_node    |-> follower,
     source_node  |-> lstate.id,
     entry        |-> next_entries[follower],
     commit_index |-> lstate.commit_index,
     epoch        |-> lstate.epoch]

GetNextAddEntryRequests(lstate, next_entries, followers) ==
    { GetAddEntryRequest(lstate, next_entries, f) : f \in followers }

GetNextEntries(lstate, followers) ==
    [f \in followers |-> NextEntry(lstate, lstate.follow_cursor[f].last_pushed)]

LeaderSendsEntriesToFollowers ==
    \* enabling conditions
    \E leader \in Nodes, followers \in SUBSET Nodes :
        /\ followers # {}
        /\ LET lstate == node_state[leader]
           IN
            /\ lstate.status = LEADER
            /\ IncludesAllSendableFollowers(lstate, followers)
            \* state changes
            /\ LET next_entries == GetNextEntries(lstate, followers)
               IN /\ node_state' = [node_state EXCEPT ![leader].follow_cursor =
                                        [n \in Nodes |->
                                            IF n \in followers
                                            THEN [lstate.follow_cursor[n] EXCEPT !.last_pushed = next_entries[n].entry_id]
                                            ELSE lstate.follow_cursor[n]]]
                  /\ SendMessages(GetNextAddEntryRequests(lstate, next_entries, followers))
                  /\ UNCHANGED << metadata, metadata_version, operator_state, metadata, confirmed, operator_stop_ctr, scenario, wal, client >>

GetAddEntryOkResponse(msg, fstate, entry) ==
    [type        |-> ADD_ENTRY_RESPONSE,
     dest_node   |-> msg.source_node,
     source_node |-> fstate.id,
     code        |-> OK,
     entry_id    |-> entry.entry_id,
     epoch       |-> fstate.epoch]

FollowerConfirmsEntry ==
    \* enabling conditions
    \E msg \in DOMAIN messages :
        /\ IsEarliestReceivableEntryMessage(messages, msg, ADD_ENTRY_REQUEST)
        /\ LET f      == msg.dest_node
               fstate == node_state[f]
           IN
                /\ fstate.status \in {FOLLOWER, FENCED}
                /\ fstate.epoch <= msg.epoch \* reconfig could mean leader has higher epoch than follower
                \* state changes
                /\ node_state' = [node_state EXCEPT ![f].status       = FOLLOWER,
                                                    ![f].epoch        = msg.epoch,
                                                    ![f].leader       = msg.source_node,
                                                    ![f].log          = @ \union { msg.entry },
                                                    ![f].head_index   = msg.entry.entry_id,
                                                    ![f].commit_index = msg.commit_index]

                /\ ProcessedOneAndSendAnother(msg, GetAddEntryOkResponse(msg, fstate, msg.entry))
                /\ UNCHANGED << metadata, metadata_version, operator_state, metadata, confirmed, operator_stop_ctr, scenario, wal, client >>

GetAddEntryInvalidEpochResponse(nstate, msg) ==
    [type        |-> ADD_ENTRY_RESPONSE,
     dest_node   |-> msg.source_node,
     source_node |-> nstate.id,
     code        |-> INVALID_EPOCH,
     entry_id    |-> msg.entry.entry_id,
     epoch       |-> msg.epoch]

FollowerRejectsEntry ==
    \* enabling conditions
    \E msg \in DOMAIN messages :
        /\ IsEarliestReceivableEntryMessage(messages, msg, ADD_ENTRY_REQUEST)
        /\ LET nstate == node_state[msg.dest_node]
           IN
                /\ nstate.epoch > msg.epoch
                \* state changes
                /\ ProcessedOneAndSendAnother(msg, GetAddEntryInvalidEpochResponse(nstate, msg))
                /\ UNCHANGED << metadata, metadata_version, operator_state, metadata, node_state, confirmed, operator_stop_ctr, scenario, wal, client >>

GetEntry(entry_id, nstate) ==
    CHOOSE entry \in nstate.log :
        CompareLogEntries(entry.entry_id, entry_id) = 0

\* note that >= RF/2 instead of RF/2 + 1. This is because the
\* leader is counting follow cursors only. It already has the
\* entry and is the + 1.
EntryReachedQuorum(entry_id, follow_cursor, rep_factor) ==
    Cardinality({ n \in Nodes :
                    /\ follow_cursor[n].status = ATTACHED
                    /\ IsLowerOrEqualId(entry_id, follow_cursor[n].last_confirmed) })
                >= (rep_factor \div 2)

LogPrefixAtQuorum(nstate, entry_id, follow_cursor, rep_factor) ==
    \A entry \in nstate.log :
        \/ IsHigherId(entry.entry_id, entry_id)
        \/ /\ IsLowerOrEqualId(entry.entry_id, entry_id)
           /\ EntryReachedQuorum(entry.entry_id, follow_cursor, rep_factor)

\* an entry of any term is committed once its prefix is at quorum
EntryIsCommitted_AnyTerm(nstate, entry_id, cursor, rep_factor) ==
    LogPrefixAtQuorum(nstate, entry_id, cursor, rep_factor)

EntryIsCommitted(nstate, entry_id, cursor, rep_factor) ==
    /\ LogPrefixAtQuorum(nstate, entry_id, cursor, rep_factor)
    /\ entry_id.epoch = nstate.epoch \* can only commit entries of the current epoch

\* the leader records the confirmation and leaves its commit index alone
LeaderHandlesEntryConfirm_KeepsCommitIndex ==
    \E msg \in DOMAIN messages :
        /\ IsEarliestReceivableEntryMessage(messages, msg, ADD_ENTRY_RESPONSE)
        /\ LET leader   == msg.dest_node
               follower == msg.source_node
               nstate   == node_state[leader]
           IN
                /\ nstate.status = LEADER
                /\ nstate.epoch = msg.epoch
                /\ msg.code = OK
                /\ nstate.follow_cursor[follower].status = ATTACHED
                /\ LET updated_cursor == [nstate.follow_cursor EXCEPT ![follower].last_confirmed = msg.entry_id]
                   IN
                      /\ node_state' = [node_state EXCEPT ![leader].follow_cursor = updated_cursor]
                      /\ UNCHANGED confirmed
                      /\ MessageProcessed(msg)
            /\ UNCHANGED << metadata, metadata_version, operator_state, metadata, operator_stop_ctr, scenario, wal, client >>

LeaderHandlesEntryConfirm ==
    \* enabling conditions
    \E msg \in DOMAIN messages :
        /\ IsEarliestReceivableEntryMessage(messages, msg, ADD_ENTRY_RESPONSE)
        /\ LET leader   == msg.dest_node
               follower == msg.source_node
               nstate   == node_state[leader]
           IN
                /\ nstate.status = LEADER
                /\ nstate.epoch = msg.epoch
                /\ msg.code = OK
                /\ nstate.follow_cursor[follower].status = ATTACHED
                \* state changes
                /\ LET updated_cursor == [nstate.follow_cursor EXCEPT ![follower].last_confirmed = msg.entry_id]
                       entry          == GetEntry(msg.entry_id, nstate)
                   IN
                      /\ IF EntryIsCommitted(nstate, msg.entry_id, updated_cursor, nstate.rep_factor)
                         THEN /\ node_state' = [node_state EXCEPT ![leader].follow_cursor = updated_cursor,
                                                                  ![leader].commit_index  = IF IsHigherId(msg.entry_id, @)
                                                                                            THEN msg.entry_id
                                                                                            ELSE @]
                              /\ confirmed' = [confirmed EXCEPT ![entry.value] = TRUE]
                         ELSE /\ node_state' = [node_state EXCEPT ![leader].follow_cursor = updated_cursor]
                              /\ UNCHANGED confirmed
                      /\ MessageProcessed(msg)
            /\ UNCHANGED << metadata, metadata_version, operator_state, metadata, operator_stop_ctr, scenario, wal, client >>

\* the leader drops the rejecting follower and stays leader
LeaderHandlesEntryRejection_StaysLeader ==
    \E msg \in DOMAIN messages :
        /\ IsEarliestReceivableEntryMessage(messages, msg, ADD_ENTRY_RESPONSE)
        /\ LET nstate == node_state[msg.dest_node]
           IN
                /\ nstate.status = LEADER
                /\ nstate.epoch = msg.epoch
                /\ msg.code = INVALID_EPOCH
                /\ node_state' = [node_state EXCEPT ![msg.dest_node].follow_cursor[msg.source_node] = NoCursor]
                /\ MessageProcessed(msg)
                /\ UNCHANGED << metadata, metadata_version, operator_state, metadata, confirmed, operator_stop_ctr, scenario, wal, client >>

LeaderHandlesEntryRejection ==
    \* enabling conditions
    \E msg \in DOMAIN messages :
        /\ IsEarliestReceivableEntryMessage(messages, msg, ADD_ENTRY_RESPONSE)
        /\ LET nstate == node_state[msg.dest_node]
           IN
                /\ nstate.status = LEADER
                /\ nstate.epoch = msg.epoch
                /\ msg.code = INVALID_EPOCH
                \* Actions
                /\ node_state' = [node_state EXCEPT ![msg.dest_node].status        = FENCED,
                                                    ![msg.dest_node].follow_cursor = [n1 \in Nodes |-> NoCursor]]
                /\ MessageProcessed(msg)
                /\ UNCHANGED << metadata, metadata_version, operator_state, metadata, confirmed, operator_stop_ctr, scenario, wal, client >>

\* a reconfiguration may start whatever the status of the shard
ReconfigurationAllowed_IgnoresStatus(ostate) ==
   /\ ostate.status = RUNNING
   /\ ostate.md.reconfig = NIL_RECORD
   /\ ostate.md_version = metadata_version

ReconfigurationAllowed(ostate) ==
   /\ ostate.status = RUNNING
   /\ ostate.md.shard_status = STEADY_STATE
   /\ ostate.md.reconfig = NIL_RECORD
   /\ ostate.md_version = metadata_version

GetPrepareNodeSwapReconfigRequest(ostate, old_node, new_epoch) ==
    [type        |-> PREPARE_RECONFIG_REQUEST,
     op          |-> NODE_SWAP,
     epoch       |-> new_epoch,
     node        |-> ostate.md.leader,
     operator    |-> ostate.id,
     old_node    |-> old_node]

OperatorStartsNodeSwapReconfiguration ==
    \* enabling conditions
    /\ OperationScheduled(NODE_SWAP) \* state space reduction
    /\ \E o \in Operators :
        LET ostate == operator_state[o]
        IN /\ ReconfigurationAllowed(ostate)
           /\ \E old_node, new_node \in Nodes :
                /\ old_node \in ostate.md.ensemble
                /\ old_node # ostate.md.leader
                /\ new_node \notin ostate.md.ensemble
                /\ LET new_md_version == metadata_version + 1
                       new_epoch      == metadata.epoch + 1
                       reconfig       == [phase               |-> PREPARE,
                                          op                  |-> NODE_SWAP,
                                          rep_factor          |-> ostate.md.rep_factor,
                                          old_node            |-> old_node,
                                          new_node            |-> new_node,
                                          epoch               |-> new_epoch,
                                          new_node_head_index |-> NoEntryId]
                       new_md         == [ostate.md EXCEPT !.shard_status = RECONFIGURATION,
                                                           !.epoch        = new_epoch,
                                                           !.reconfig     = reconfig]
                   IN
                      \* state changes
                      /\ metadata_version' = new_md_version
                      /\ metadata' = new_md
                      /\ operator_state' = [operator_state EXCEPT ![o].md_version = new_md_version,
                                                                  ![o].md         = new_md]
                      /\ SendMessage(GetPrepareNodeSwapReconfigRequest(ostate, old_node, new_epoch))
                      /\ UNCHANGED << node_state, confirmed, operator_stop_ctr, scenario, wal, client >>

GetPrepareExpandReconfigRequest(ostate, new_epoch) ==
    [type        |-> PREPARE_RECONFIG_REQUEST,
     op          |-> EXPAND,
     epoch       |-> new_epoch,
     node        |-> ostate.md.leader,
     operator    |-> ostate.id]

OperatorStartsExpandReconfiguration ==
    \* enabling conditions
    /\ OperationScheduled(EXPAND) \* state space reduction
    /\ \E o \in Operators :
        LET ostate == operator_state[o]
        IN /\ ReconfigurationAllowed(ostate)
           /\ \E new_node \in Nodes :
                /\ new_node \notin ostate.md.ensemble
                /\ LET new_md_version == metadata_version + 1
                       new_epoch      == metadata.epoch + 1
                       reconfig       == [phase               |-> PREPARE,
                                          op                  |-> EXPAND,
                                          rep_factor          |-> ostate.md.rep_factor + 1,
                                          new_node            |-> new_node,
                                          epoch               |-> new_epoch,
                                          new_node_head_index |-> NoEntryId]
                       new_md         == [ostate.md EXCEPT !.shard_status = RECONFIGURATION,
                                                           !.epoch        = new_epoch,
                                                           !.reconfig     = reconfig]
                   IN
                      \* state changes
                      /\ metadata_version' = new_md_version
                      /\ metadata' = new_md
                      /\ operator_state' = [operator_state EXCEPT ![o].md_version = new_md_version,
                                                                  ![o].md         = new_md]
                      /\ SendMessage(GetPrepareExpandReconfigRequest(ostate, new_epoch))
                      /\ UNCHANGED << node_state, confirmed, operator_stop_ctr, scenario, wal, client >>

GetPrepareContractReconfigRequest(ostate, old_node, new_epoch) ==
    [type        |-> PREPARE_RECONFIG_REQUEST,
     op          |-> CONTRACT,
     epoch       |-> new_epoch,
     node        |-> ostate.md.leader,
     operator    |-> ostate.id,
     old_node    |-> old_node]

OperatorStartsContractReconfiguration ==
    \* enabling conditions
    /\ OperationScheduled(CONTRACT) \* state space reduction
    /\ \E o \in Operators :
        LET ostate == operator_state[o]
        IN /\ ReconfigurationAllowed(ostate)
           /\ ostate.md.rep_factor > 3
           /\ \E old_node \in Nodes :
                /\ old_node \in ostate.md.ensemble
                /\ old_node # ostate.md.leader
                /\ LET new_md_version == metadata_version + 1
                       new_epoch      == metadata.epoch + 1
                       reconfig       == [phase               |-> PREPARE,
                                          op                  |-> CONTRACT,
                                          rep_factor          |-> ostate.md.rep_factor - 1,
                                          old_node            |-> old_node,
                                          epoch               |-> new_epoch]
                       new_md         == [ostate.md EXCEPT !.shard_status = RECONFIGURATION,
                                                           !.epoch        = new_epoch,
                                                           !.reconfig     = reconfig]
                   IN
                      \* state changes
                      /\ metadata_version' = new_md_version
                      /\ metadata' = new_md
                      /\ operator_state' = [operator_state EXCEPT ![o].md_version = new_md_version,
                                                                  ![o].md         = new_md]
                      /\ SendMessage(GetPrepareContractReconfigRequest(ostate, old_node, new_epoch))
                      /\ UNCHANGED << node_state, confirmed, operator_stop_ctr, scenario, wal, client >>

GetPrepareReconfigResponse(msg, nstate) ==
    IF msg.op = CONTRACT
    THEN [type         |-> PREPARE_RECONFIG_RESPONSE,
          op           |-> msg.op,
          operator     |-> msg.operator,
          node         |-> nstate.id,
          epoch        |-> msg.epoch]
    ELSE [type         |-> PREPARE_RECONFIG_RESPONSE,
          op           |-> msg.op,
          operator     |-> msg.operator,
          node         |-> nstate.id,
          epoch        |-> msg.epoch,
          snapshot     |-> nstate.log,
          head_index   |-> nstate.head_index,
          commit_index |-> nstate.commit_index]

LeaderHandlesPrepareReconfigRequest ==
    \* enabling conditions
    \E msg \in DOMAIN messages :
        /\ ReceivableMessageOfType(messages, msg, PREPARE_RECONFIG_REQUEST)
        /\ LET nstate == node_state[msg.node]
           IN /\ nstate.epoch < msg.epoch
              /\ nstate.status = LEADER
              /\ nstate.reconfig_inprog = FALSE
              \* Actions
              /\ IF msg.op = EXPAND
                 THEN node_state' = [node_state EXCEPT ![nstate.id].epoch           = msg.epoch,
                                                       ![nstate.id].reconfig_inprog = TRUE]
                 \* NODE_SWAP or CONTRACT
                 ELSE node_state' = [node_state EXCEPT ![nstate.id].epoch           = msg.epoch,
                                                       ![nstate.id].reconfig_inprog = TRUE,
                                                       ![nstate.id].follow_cursor[msg.old_node].status = PENDING_REMOVAL]
              /\ ProcessedOneAndSendAnother(msg, GetPrepareReconfigResponse(msg, nstate))
              /\ UNCHANGED << metadata_version, metadata, operator_state, confirmed, operator_stop_ctr, scenario, wal, client >>

GetCommitContractReconfigRequest(ostate) ==
    [type        |-> COMMIT_RECONFIG_REQUEST,
     op          |-> CONTRACT,
     rep_factor  |-> ostate.md.reconfig.rep_factor,
     epoch       |-> ostate.md.epoch,
     node        |-> ostate.md.leader,
     operator    |-> ostate.id,
     old_node    |-> ostate.md.reconfig.old_node]

GetSnapshotRequest(ostate, snapshot, head_index, commit_index) ==
    [type         |-> SNAPSHOT_REQUEST,
     node         |-> ostate.md.reconfig.new_node,
     operator     |-> ostate.id,
     epoch        |-> ostate.md.epoch,
     snapshot     |-> snapshot,
     head_index   |-> head_index,
     commit_index |-> commit_index]

OperatorHandlesPrepareReconfigResponse ==
    \* enabling conditions
    \E o \in Operators :
        LET ostate == operator_state[o]
        IN
            /\ ostate.status = RUNNING
            /\ ostate.md.shard_status = RECONFIGURATION
            /\ ostate.md.reconfig.phase = PREPARE
            /\ ostate.md_version = metadata_version
            /\ \E msg \in DOMAIN messages :
                /\ ReceivableMessageOfType(messages, msg, PREPARE_RECONFIG_RESPONSE)
                /\ msg.operator = o
                /\ ostate.md.epoch = msg.epoch
                \* state changes
                /\ IF msg.op \in {NODE_SWAP, EXPAND}
                   THEN /\ ProcessedOneAndSendAnother(msg, GetSnapshotRequest(ostate,
                                                                              msg.snapshot,
                                                                              msg.head_index,
                                                                              msg.commit_index))
                        /\ UNCHANGED << metadata_version, metadata, operator_state,
                                        node_state, confirmed, operator_stop_ctr, scenario, wal, client >>
                   ELSE \* CONTRACT
                        LET new_md == [ostate.md EXCEPT !.reconfig.phase = COMMIT]
                        IN /\ metadata_version' = metadata_version + 1
                           /\ metadata' = new_md
                           /\ operator_state' = [operator_state EXCEPT ![o].md_version = metadata_version + 1,
                                                                       ![o].md         = new_md]
                           /\ ProcessedOneAndSendAnother(msg, GetCommitContractReconfigRequest(ostate))
                           /\ UNCHANGED << node_state, confirmed, operator_stop_ctr, scenario, wal, client >>

GetSnapshotResponse(msg) ==
    [type         |-> SNAPSHOT_RESPONSE,
     operator     |-> msg.operator,
     node         |-> msg.node,
     epoch        |-> msg.epoch,
     head_index   |-> msg.head_index]

\* the node installs the snapshot but keeps its own commit index
NodeHandlesSnapshotRequest_KeepsCommitIndex ==
    \E msg \in DOMAIN messages :
        /\ ReceivableMessageOfType(messages, msg, SNAPSHOT_REQUEST)
        /\ LET nstate == node_state[msg.node]
           IN /\ nstate.epoch < msg.epoch
              /\ node_state' = [node_state EXCEPT ![nstate.id] =
                                    [@ EXCEPT !.status         = FENCED,
                                              !.epoch          = msg.epoch,
                                              !.follow_cursor  = [n \in Nodes |-> NoCursor],
                                              !.log            = msg.snapshot,
                                              !.head_index     = msg.head_index]]
              /\ ProcessedOneAndSendAnother(msg, GetSnapshotResponse(msg))
              /\ UNCHANGED << metadata_version, metadata, operator_state, confirmed, operator_stop_ctr, scenario, wal, client >>

NodeHandlesSnapshotRequest ==
    \* enabling conditions
    \E msg \in DOMAIN messages :
        /\ ReceivableMessageOfType(messages, msg, SNAPSHOT_REQUEST)
        /\ LET nstate == node_state[msg.node]
           IN /\ nstate.epoch < msg.epoch
              \* state changes
              /\ node_state' = [node_state EXCEPT ![nstate.id] =
                                    [@ EXCEPT !.status         = FENCED,
                                              !.epoch          = msg.epoch,
                                              !.follow_cursor  = [n \in Nodes |-> NoCursor],
                                              !.log            = msg.snapshot,
                                              !.head_index     = msg.head_index,
                                              !.commit_index   = msg.commit_index]]
              /\ ProcessedOneAndSendAnother(msg, GetSnapshotResponse(msg))
              /\ UNCHANGED << metadata_version, metadata, operator_state, confirmed, operator_stop_ctr, scenario, wal, client >>

GetCommitReconfigRequest(ostate, new_node_head_index) ==
    IF ostate.md.reconfig.op = NODE_SWAP
    THEN
        [type       |-> COMMIT_RECONFIG_REQUEST,
         op         |-> NODE_SWAP,
         rep_factor |-> ostate.md.reconfig.rep_factor,
         node       |-> ostate.md.leader,
         operator   |-> ostate.id,
         epoch      |-> ostate.md.epoch,
         old_node   |-> ostate.md.reconfig.old_node,
         new_node   |-> ostate.md.reconfig.new_node,
         head_index |-> new_node_head_index]
    ELSE
        [type       |-> COMMIT_RECONFIG_REQUEST,
         op         |-> EXPAND,
         rep_factor |-> ostate.md.reconfig.rep_factor,
         node       |-> ostate.md.leader,
         operator   |-> ostate.id,
         epoch      |-> ostate.md.epoch,
         new_node   |-> ostate.md.reconfig.new_node,
         head_index |-> new_node_head_index]

OperatorHandlesSnapshotResponse ==
    \* enabling conditions
    \E o \in Operators :
        LET ostate == operator_state[o]
        IN
            /\ ostate.status = RUNNING
            /\ ostate.md.shard_status = RECONFIGURATION
            /\ ostate.md.reconfig.phase = PREPARE
            /\ metadata_version = ostate.md_version
            /\ \E msg \in DOMAIN messages :
                /\ ReceivableMessageOfType(messages, msg, SNAPSHOT_RESPONSE)
                /\ msg.operator = o
                /\ ostate.md.epoch = msg.epoch
                \* state changes
                /\ LET new_md == [ostate.md EXCEPT !.reconfig.phase               = COMMIT,
                                                   !.reconfig.new_node_head_index = msg.head_index]
                   IN /\ metadata_version' = metadata_version + 1
                      /\ metadata' = new_md
                      /\ operator_state' = [operator_state EXCEPT ![o].md_version = metadata_version + 1,
                                                                  ![o].md         = new_md]
                      /\ ProcessedOneAndSendAnother(msg, GetCommitReconfigRequest(ostate, msg.head_index))
            /\ UNCHANGED << node_state, confirmed, operator_stop_ctr, scenario, wal, client >>

NewCommitIndex(nstate, updated_cursor, rep_factor) ==
    IF \E entry \in nstate.log : EntryIsCommitted(nstate, entry.entry_id, updated_cursor, rep_factor)
    THEN
        LET max_entry == CHOOSE entry \in nstate.log :
                            /\ EntryIsCommitted(nstate, entry.entry_id, updated_cursor, rep_factor)
                            /\ ~\E e1 \in nstate.log :
                                /\ IsHigherId(e1.entry_id, entry.entry_id)
                                /\ EntryIsCommitted(nstate, e1.entry_id, updated_cursor, rep_factor)
        IN max_entry.entry_id
    ELSE NoEntryId

UpdateConfirmed(nstate, commit_index) ==
    [v \in DOMAIN confirmed |-> IF confirmed[v] = TRUE
                                THEN TRUE
                                ELSE IF \E entry \in nstate.log :
                                            /\ IsLowerOrEqualId(entry.entry_id, commit_index)
                                            /\ entry.value = v
                                     THEN TRUE
                                     ELSE FALSE]

GetCommitNodeSwapReconfigResponse(msg) ==
    [type     |-> COMMIT_RECONFIG_RESPONSE,
     op       |-> NODE_SWAP,
     operator |-> msg.operator,
     node     |-> msg.node,
     epoch    |-> msg.epoch,
     old_node |-> msg.old_node,
     new_node |-> msg.new_node]

LeaderHandlesCommitNodeSwapReconfigRequest ==
    \* enabling conditions
    \E msg \in DOMAIN messages :
        /\ ReceivableMessageOfType(messages, msg, COMMIT_RECONFIG_REQUEST)
        /\ LET nstate == node_state[msg.node]
           IN /\ nstate.epoch = msg.epoch
              /\ nstate.status = LEADER
              /\ msg.op = NODE_SWAP
              /\ nstate.reconfig_inprog = TRUE
              /\ nstate.follow_cursor[msg.old_node].status = PENDING_REMOVAL
              /\ nstate.follow_cursor[msg.new_node].status = NIL
              \* state changes
              /\ LET updated_cursor   == [n \in Nodes |->
                                            IF n = msg.old_node
                                            THEN NoCursor
                                            ELSE IF n = msg.new_node
                                                 THEN [status         |-> ATTACHED,
                                                       last_pushed    |-> msg.head_index,
                                                       last_confirmed |-> msg.head_index]
                                                 ELSE nstate.follow_cursor[n]]
                     new_commit_index == NewCommitIndex(nstate, updated_cursor, msg.rep_factor)
                 IN
                      /\ node_state' = [node_state EXCEPT ![nstate.id].follow_cursor   = updated_cursor,
                                                          ![nstate.id].commit_index    = new_commit_index,
                                                          ![nstate.id].reconfig_inprog = FALSE]
                      /\ confirmed' = UpdateConfirmed(nstate, new_commit_index)
                      /\ ProcessedOneAndSendAnother(msg, GetCommitNodeSwapReconfigResponse(msg))
                      /\ UNCHANGED << metadata_version, metadata, operator_state, operator_stop_ctr, scenario, wal, client >>

GetCommitExpandReconfigResponse(msg) ==
    [type     |-> COMMIT_RECONFIG_RESPONSE,
     op       |-> EXPAND,
     operator |-> msg.operator,
     node     |-> msg.node,
     epoch    |-> msg.epoch,
     new_node |-> msg.new_node]

LeaderHandlesCommitExpandReconfigRequest ==
    \* enabling conditions
    \E msg \in DOMAIN messages :
        /\ ReceivableMessageOfType(messages, msg, COMMIT_RECONFIG_REQUEST)
        /\ LET nstate == node_state[msg.node]
           IN /\ nstate.epoch = msg.epoch
              /\ nstate.status = LEADER
              /\ nstate.reconfig_inprog = TRUE
              /\ msg.op = EXPAND
              /\ nstate.follow_cursor[msg.new_node].status = NIL
              \* state changes
              /\ LET updated_cursor   == [n \in Nodes |->
                                            IF n = msg.new_node
                                            THEN [status         |-> ATTACHED,
                                                  last_pushed    |-> msg.head_index,
                                                  last_confirmed |-> msg.head_index]
                                            ELSE nstate.follow_cursor[n]]
                     new_commit_index == NewCommitIndex(nstate, updated_cursor, msg.rep_factor)
                 IN
                      /\ node_state' = [node_state EXCEPT ![nstate.id].rep_factor      = msg.rep_factor,
                                                          ![nstate.id].follow_cursor   = updated_cursor,
                                                          ![nstate.id].commit_index    = new_commit_index,
                                                          ![nstate.id].reconfig_inprog = FALSE]
                      /\ confirmed' = UpdateConfirmed(nstate, new_commit_index)
                      /\ ProcessedOneAndSendAnother(msg, GetCommitExpandReconfigResponse(msg))
                      /\ UNCHANGED << metadata_version, metadata, operator_state, operator_stop_ctr, scenario, wal, client >>

GetCommitContractReconfigResponse(msg) ==
    [type       |-> COMMIT_RECONFIG_RESPONSE,
     op         |-> CONTRACT,
     operator   |-> msg.operator,
     node       |-> msg.node,
     epoch      |-> msg.epoch,
     old_node   |-> msg.old_node]

\* the leader finalizes the contract whatever the recomputed commit index
LeaderHandlesCommitContractReconfigRequest_Unconditional ==
    \E msg \in DOMAIN messages :
        /\ ReceivableMessageOfType(messages, msg, COMMIT_RECONFIG_REQUEST)
        /\ LET nstate == node_state[msg.node]
           IN /\ nstate.epoch = msg.epoch
              /\ nstate.status = LEADER
              /\ nstate.reconfig_inprog = TRUE
              /\ msg.op = CONTRACT
              /\ nstate.follow_cursor[msg.old_node].status = PENDING_REMOVAL
              /\ LET updated_cursor   == [n \in Nodes |->
                                            IF n = msg.old_node
                                            THEN NoCursor
                                            ELSE nstate.follow_cursor[n]]
                 IN
                      /\ node_state' = [node_state EXCEPT ![nstate.id].rep_factor      = msg.rep_factor,
                                                          ![nstate.id].follow_cursor   = updated_cursor,
                                                          ![nstate.id].reconfig_inprog = FALSE]
                      /\ ProcessedOneAndSendAnother(msg, GetCommitContractReconfigResponse(msg))
                      /\ UNCHANGED << metadata_version, metadata, operator_state, confirmed, operator_stop_ctr, scenario, wal, client >>

LeaderHandlesCommitContractReconfigRequest ==
    \* enabling conditions
    \E msg \in DOMAIN messages :
        /\ ReceivableMessageOfType(messages, msg, COMMIT_RECONFIG_REQUEST)
        /\ LET nstate == node_state[msg.node]
           IN /\ nstate.epoch = msg.epoch
              /\ nstate.status = LEADER
              /\ nstate.reconfig_inprog = TRUE
              /\ msg.op = CONTRACT
              /\ nstate.follow_cursor[msg.old_node].status = PENDING_REMOVAL
              /\ LET updated_cursor   == [n \in Nodes |->
                                            IF n = msg.old_node
                                            THEN NoCursor
                                            ELSE nstate.follow_cursor[n]]
                     new_commit_index == NewCommitIndex(nstate, updated_cursor, msg.rep_factor)
                 IN
                      /\ IsSameId(new_commit_index, nstate.commit_index)
                      \* state changes
                      /\ node_state' = [node_state EXCEPT ![nstate.id].rep_factor      = msg.rep_factor,
                                                          ![nstate.id].follow_cursor   = updated_cursor,
                                                          ![nstate.id].reconfig_inprog = FALSE]
                      /\ ProcessedOneAndSendAnother(msg, GetCommitContractReconfigResponse(msg))
                      /\ UNCHANGED << metadata_version, metadata, operator_state, confirmed, operator_stop_ctr, scenario, wal, client >>

\* completing a contract leaves the removed node in the ensemble
NewEnsemble_ContractKeepsNode(md, msg) ==
    CASE msg.op = NODE_SWAP ->
            (md.ensemble \ {msg.old_node}) \union {msg.new_node}
      [] msg.op = EXPAND ->
            md.ensemble \union {msg.new_node}
      [] msg.op = CONTRACT ->
            md.ensemble

NewEnsemble(md, msg) ==
    CASE msg.op = NODE_SWAP ->
            (md.ensemble \ {msg.old_node}) \union {msg.new_node}
      [] msg.op = EXPAND ->
            md.ensemble \union {msg.new_node}
      [] msg.op = CONTRACT ->
            md.ensemble \ {msg.old_node}

OperatorCompletesReconfiguration ==
    \* enabling conditions
    \E o \in Operators :
        LET ostate == operator_state[o]
        IN /\ ostate.status = RUNNING
           /\ \E msg \in DOMAIN messages :
                /\ ReceivableMessageOfType(messages, msg, COMMIT_RECONFIG_RESPONSE)
                /\ msg.operator = o
                /\ ostate.md.epoch = msg.epoch
                /\ ostate.md.shard_status = RECONFIGURATION
                /\ ostate.md.reconfig.phase = COMMIT
                \* state changes
                /\ LET new_ensemble == NewEnsemble(ostate.md, msg)
                       new_md       == [ostate.md EXCEPT !.shard_status = STEADY_STATE,
                                                         !.ensemble     = new_ensemble,
                                                         !.rep_factor   = ostate.md.reconfig.rep_factor,
                                                         !.reconfig     = NIL_RECORD]
                   IN
                      /\ metadata_version' = metadata_version + 1
                      /\ metadata' = new_md
                      /\ operator_state' = [operator_state EXCEPT ![o].md_version = metadata_version + 1,
                                                                  ![o].md         = new_md]
                      /\ MessageProcessed(msg)
                      /\ UNCHANGED << node_state, confirmed, operator_stop_ctr, scenario, wal, client >>

Next ==
    \* Election
    \/ OperatorStarts                             \* an operator starts and loads the metadata
    \/ OperatorStops                              \* a running operator stops, losing all local state
    \/ OperatorStartsElection                     \* election starts, fencing requests sent
    \/ NodeHandlesFencingRequest                  \* node fences itself, responds with head index
    \/ OperatorHandlesPreQuorumFencingResponse    \* operator handles fence response, not reached quorum yet
    \/ OperatorHandlesQuorumFencingResponse       \* operator handles fence response, reaching quorum, choosing leader
    \/ NodeHandlesBecomeLeaderRequest             \* new leader receives notification of leadership
    \/ OperatorHandlesBecomeLeaderResponse        \* operator handles new leader confirmation
    \/ NodeHandlesTruncateRequest                 \* follower truncates it log to safe point
    \/ LeaderHandlesTruncateResponse              \* leader receives truncation response
    \/ OperatorHandlesPostQuorumFencingResponse   \* operator handles fence response after leader elected, adds as a follower
    \/ LeaderHandlesAddFollowerRequest            \* leader notified of follower (post election)
    \* Writes and replication
    \/ Write                                      \* a client writes an entry to the leader
    \/ LeaderSendsEntriesToFollowers              \* leader sends entries to followers via cursors
    \/ FollowerConfirmsEntry                      \* follower receives an entry, confirms to leader
    \/ FollowerRejectsEntry                       \* follower receives an entry with a stale epoch, sends INVALID_EPOCH to leader
    \/ LeaderHandlesEntryConfirm                  \* leader receives add confirm, confirms to client if reached majority
    \/ LeaderHandlesEntryRejection                \* leader receives add rejection, abdicates
    \* Reconfiguration
    \/ OperatorStartsNodeSwapReconfiguration      \* operator sends node swap reconfig request to leader
    \/ OperatorStartsExpandReconfiguration        \* operator sends expand reconfig request to leader
    \/ OperatorStartsContractReconfiguration      \* operator sends contract reconfig request to leader
    \/ LeaderHandlesPrepareReconfigRequest        \* leader handles prepare phase reconfig request
    \/ OperatorHandlesPrepareReconfigResponse     \* operator handles prepare phase reconfig response
    \/ NodeHandlesSnapshotRequest                 \* node receives a snapshot
    \/ OperatorHandlesSnapshotResponse            \* operator handles snapshot confirmation from node
    \/ LeaderHandlesCommitNodeSwapReconfigRequest \* leader commits node swap reconfig
    \/ LeaderHandlesCommitExpandReconfigRequest   \* leader commits expand reconfig
    \/ LeaderHandlesCommitContractReconfigRequest \* leader commits contract reconfig
    \/ OperatorCompletesReconfiguration           \* operator completes reconfiguration

Spec == Init /\ [][Next]_vars

AllValuesCommitted ==
    \A v \in scenario.values :
        /\ v \in DOMAIN confirmed
        /\ confirmed[v] = TRUE

\* ------------------------------ elections and replication alone
ReplicationInit ==
    /\ InitIn(ReplicationScenarios)
    /\ wal = NoWal
    /\ client = NoClient

ReplicationNext ==
    \/ OperatorStarts
    \/ OperatorStartsElection
    \/ NodeHandlesFencingRequest
    \/ OperatorHandlesPreQuorumFencingResponse
    \/ OperatorHandlesQuorumFencingResponse
    \/ NodeHandlesBecomeLeaderRequest
    \/ OperatorHandlesBecomeLeaderResponse
    \/ NodeHandlesTruncateRequest
    \/ LeaderHandlesTruncateResponse
    \/ OperatorHandlesPostQuorumFencingResponse
    \/ LeaderHandlesAddFollowerRequest
    \/ Write
    \/ LeaderSendsEntriesToFollowers
    \/ FollowerConfirmsEntry
    \/ FollowerRejectsEntry
    \/ LeaderHandlesEntryConfirm
    \/ LeaderHandlesEntryRejection

ReplicationSpec == ReplicationInit /\ [][ReplicationNext]_vars

\* ------------------------------ replication under redelivery
\* The fabric delivers at least once: a TruncateResponse that its leader
\* has not handled yet may be put in flight a second time.
TruncateResponseRedelivered ==
    /\ \E m \in DOMAIN messages :
        /\ ReceivableMessageOfType(messages, m, TRUNCATE_RESPONSE)
        /\ messages[m] = 1
        /\ node_state[m.dest_node].follow_cursor[m.source_node].status = PENDING_TRUNCATE
        /\ SendMessage(m)
    /\ UNCHANGED << metadata, metadata_version, node_state, operator_state, confirmed, operator_stop_ctr, scenario, wal, client >>

RedeliveryNext ==
    \/ ReplicationNext
    \/ TruncateResponseRedelivered

RedeliveryScenarios ==
    { Scenario(RepFactor, {"v1"}, << ELECTION, ELECTION >>, {"o1"}, 0),
      Scenario(RepFactor, Values, << ELECTION >>, {"o1"}, 0) }

RedeliveryInit ==
    /\ InitIn(RedeliveryScenarios)
    /\ wal = NoWal
    /\ client = NoClient

RedeliverySpec == RedeliveryInit /\ [][RedeliveryNext]_vars

\* ------------------------------ write-ahead log trimmer
\* The log of one node as the trimmer reads it: the timestamp of the entry
\* at each offset from first_offset on, the clock, the configured retention
\* and the offset the last run of doTrim passed to Trim.
InvalidOffset == -1
DefaultRetention == 3600000

MaxLen == 4
MaxTimestamp == 2
MaxNow == 4
MaxRetention == 2

FirstOffset(w) ==
    w.first_offset

LastOffset(w) ==
    IF Len(w.timestamps) = 0
    THEN InvalidOffset
    ELSE w.first_offset + Len(w.timestamps) - 1

readAtOffset(w, offset) ==
    w.timestamps[offset - w.first_offset + 1]

\* NewTrimmer: a retention of zero stands for the default
NewTrimmer(first_offset, timestamps, now, retention) ==
    [first_offset |-> first_offset,
     timestamps   |-> timestamps,
     now          |-> now,
     retention    |-> IF retention = 0 THEN DefaultRetention ELSE retention,
     trimmed      |-> InvalidOffset,
     hung         |-> FALSE]

\* the median is rounded down
Median_Floor(firstOffset, lastOffset) ==
    (firstOffset + lastOffset) \div 2

Median(firstOffset, lastOffset) ==
    LET med == (firstOffset + lastOffset) \div 2
    IN IF (firstOffset + lastOffset) % 2 > 0
       THEN med + 1
       ELSE med

\* the loop of binarySearch; iterations counts the turns still allowed, so
\* that a loop that does not end shows as terminated = FALSE
RECURSIVE binarySearchLoop(_, _, _, _, _)
binarySearchLoop(w, firstOffset, lastOffset, cutoffTime, iterations) ==
    IF ~(firstOffset < lastOffset)
    THEN [offset |-> firstOffset, terminated |-> TRUE]
    ELSE IF iterations = 0
         THEN [offset |-> InvalidOffset, terminated |-> FALSE]
         ELSE LET med   == Median(firstOffset, lastOffset)
                  tsMed == readAtOffset(w, med)
              IN IF cutoffTime < tsMed
                 THEN binarySearchLoop(w, firstOffset, med - 1, cutoffTime, iterations - 1)
                 ELSE binarySearchLoop(w, med, lastOffset, cutoffTime, iterations - 1)

binarySearch(w, firstOffset, lastOffset, cutoffTime) ==
    binarySearchLoop(w, firstOffset, lastOffset, cutoffTime, MaxLen + 1)

\* Wal.Trim: the prefix up to and including offset is dropped
Trim(w, offset) ==
    [w EXCEPT !.timestamps   = SubSeq(@, offset - w.first_offset + 2, Len(@)),
              !.first_offset = offset + 1]

CutoffTime(w) ==
    w.now - w.retention

doTrim(w) ==
    IF LastOffset(w) = InvalidOffset
    THEN [w EXCEPT !.trimmed = InvalidOffset]
    ELSE LET cutoffTime == CutoffTime(w)
             tsFirst    == readAtOffset(w, FirstOffset(w))
         IN IF cutoffTime < tsFirst
            THEN [w EXCEPT !.trimmed = InvalidOffset]
            ELSE LET found == binarySearch(w, FirstOffset(w), LastOffset(w), cutoffTime)
                 IN IF found.terminated
                    THEN [Trim(w, found.offset) EXCEPT !.trimmed = found.offset]
                    ELSE [w EXCEPT !.hung = TRUE]

TrimmerRuns ==
    /\ wal # NoWal
    /\ ~wal.hung
    /\ wal' = doTrim(wal)
    /\ UNCHANGED << metadata_version, metadata, node_state, operator_state, confirmed, messages, operator_stop_ctr, scenario, client >>

ClockAdvances ==
    /\ wal # NoWal
    /\ wal.now < MaxNow
    /\ wal' = [wal EXCEPT !.now = @ + 1]
    /\ UNCHANGED << metadata_version, metadata, node_state, operator_state, confirmed, messages, operator_stop_ctr, scenario, client >>

WalAppend ==
    /\ wal # NoWal
    /\ Len(wal.timestamps) < MaxLen
    /\ wal.first_offset + Len(wal.timestamps) <= MaxLen
    /\ \E ts \in 0..MaxTimestamp :
        wal' = [wal EXCEPT !.timestamps = Append(@, ts)]
    /\ UNCHANGED << metadata_version, metadata, node_state, operator_state, confirmed, messages, operator_stop_ctr, scenario, client >>

TrimmerInit ==
    /\ InitIn(ReplicationScenarios)
    /\ client = NoClient
    /\ \E n \in 0..MaxLen, first_offset \in 0..1, now \in 0..MaxNow, retention \in 0..MaxRetention :
        \E timestamps \in [1..n -> 0..MaxTimestamp] :
            wal = NewTrimmer(first_offset, timestamps, now, retention)

TrimmerNext ==
    \/ TrimmerRuns
    \/ ClockAdvances
    \/ WalAppend

TrimmerSpec == TrimmerInit /\ [][TrimmerNext]_vars

\* ------------------------------ client options
\* Durations are counted in milliseconds.
DefaultBatchLinger == 5
DefaultMaxRequestsPerBatch == 1000
DefaultBatchRequestTimeout == 30000

ErrorBatchLinger == "BatchLinger must be greater than or equal to zero"
ErrorMaxRequestsPerBatch == "MaxRequestsPerBatch must be greater than zero"
ErrorBatchRequestTimeout == "BatchRequestTimeout must be greater than zero"

NoError == "nil"

MaxOptions == 3
MaxOptionValue == 2

\* an option applied to the options so far: the new options and the error
WithBatchLinger(batchLinger, options) ==
    IF batchLinger < 0
    THEN [options |-> options, err |-> ErrorBatchLinger]
    ELSE [options |-> [options EXCEPT !.batchLinger = batchLinger], err |-> NoError]

\* zero requests per batch are accepted
WithMaxRequestsPerBatch_AcceptsZero(maxRequestsPerBatch, options) ==
    IF maxRequestsPerBatch < 0
    THEN [options |-> options, err |-> ErrorMaxRequestsPerBatch]
    ELSE [options |-> [options EXCEPT !.maxRequestsPerBatch = maxRequestsPerBatch], err |-> NoError]

WithMaxRequestsPerBatch(maxRequestsPerBatch, options) ==
    IF maxRequestsPerBatch <= 0
    THEN [options |-> options, err |-> ErrorMaxRequestsPerBatch]
    ELSE [options |-> [options EXCEPT !.maxRequestsPerBatch = maxRequestsPerBatch], err |-> NoError]

WithBatchRequestTimeout(batchRequestTimeout, options) ==
    IF batchRequestTimeout <= 0
    THEN [options |-> options, err |-> ErrorBatchRequestTimeout]
    ELSE [options |-> [options EXCEPT !.batchRequestTimeout = batchRequestTimeout], err |-> NoError]

ClientOption ==
    [with : {"WithBatchLinger", "WithMaxRequestsPerBatch", "WithBatchRequestTimeout"},
     value : (0 - 1)..MaxOptionValue]

apply(o, options) ==
    CASE o.with = "WithBatchLinger"         -> WithBatchLinger(o.value, options)
      [] o.with = "WithMaxRequestsPerBatch" -> WithMaxRequestsPerBatch(o.value, options)
      [] o.with = "WithBatchRequestTimeout" -> WithBatchRequestTimeout(o.value, options)

\* the loop of NewClientOptions over the options still to apply
RECURSIVE ApplyOptions(_, _, _)
ApplyOptions(opts, options, errs) ==
    IF opts = << >>
    THEN [options |-> options, errs |-> errs]
    ELSE LET applied == apply(Head(opts), options)
         IN ApplyOptions(Tail(opts),
                         applied.options,
                         IF applied.err # NoError
                         THEN Append(errs, applied.err)
                         ELSE errs)

NewClientOptions(serviceUrl, opts) ==
    ApplyOptions(opts,
                 [serviceUrl          |-> serviceUrl,
                  batchLinger         |-> DefaultBatchLinger,
                  maxRequestsPerBatch |-> DefaultMaxRequestsPerBatch,
                  batchRequestTimeout |-> DefaultBatchRequestTimeout],
                 << >>)

\* a client chooses one more option to pass
ClientAddsOption ==
    /\ client # NoClient
    /\ client.result = NoClient
    /\ Len(client.opts) < MaxOptions
    /\ \E o \in ClientOption :
        client' = [client EXCEPT !.opts = Append(@, o)]
    /\ UNCHANGED << metadata_version, metadata, node_state, operator_state, confirmed, messages, operator_stop_ctr, scenario, wal >>

ClientCallsNewClientOptions ==
    /\ client # NoClient
    /\ client.result = NoClient
    /\ client' = [client EXCEPT !.result = NewClientOptions("localhost:6648", client.opts)]
    /\ UNCHANGED << metadata_version, metadata, node_state, operator_state, confirmed, messages, operator_stop_ctr, scenario, wal >>

ClientInit ==
    /\ InitIn(ReplicationScenarios)
    /\ wal = NoWal
    /\ client = [opts |-> << >>, result |-> NoClient]

ClientNext ==
    \/ ClientAddsOption
    \/ ClientCallsNewClientOptions

ClientSpec == ClientInit /\ [][ClientNext]_vars

\* ------------------------------ liveness
ReconfigurationStarted ==
    metadata.reconfig # NIL_RECORD

ReconfigurationCompleted ==
    metadata.reconfig = NIL_RECORD

LivenessSpec == Init /\ [][Next]_vars /\ WF_vars(Next)

\* ------------------------------ invariants of the source
AreEqual(entry1, entry2) ==
    /\ entry1.entry_id.epoch = entry2.entry_id.epoch
    /\ entry1.entry_id.offset = entry2.entry_id.offset
    /\ entry1.value = entry2.value


\* The log on all nodes matches at and below the commit index         
NoLogDivergence ==
    IF metadata.leader # NIL
    THEN \A n \in metadata.ensemble :
        \* all entries at or below commit index contain the same value
        \* for the given index across all nodes that have it
        /\ \A entry \in node_state[metadata.leader].log :
            IF IsLowerOrEqualId(entry.entry_id, node_state[n].commit_index)
            THEN ~\E copy \in node_state[n].log :
                    /\ IsSameId(entry.entry_id, copy.entry_id)
                    /\ ~AreEqual(entry, copy)
            ELSE TRUE        
        \* all entries in the node log exists in the leader log
        /\ \A entry \in node_state[n].log :
            IF IsLowerOrEqualId(entry.entry_id, node_state[n].commit_index)
            THEN \E match \in node_state[metadata.leader].log :
                AreEqual(entry, match)
            ELSE TRUE
    ELSE TRUE

ValidMessages ==
    /\ ~\E msg \in DOMAIN messages :
        /\ msg.type = ADD_FOLLOWER_REQUEST
        /\ msg.follower = msg.node
    /\ ~\E msg \in DOMAIN messages :
        /\ msg.type \in { ADD_ENTRY_REQUEST, ADD_ENTRY_RESPONSE,
                          TRUNCATE_REQUEST, TRUNCATE_RESPONSE }
        /\ msg.dest_node = msg.source_node
    /\ ~\E msg \in DOMAIN messages :
        /\ msg.type = PREPARE_RECONFIG_REQUEST
        /\ msg.op = NODE_SWAP
        /\ msg.node = msg.old_node
    /\ ~\E msg \in DOMAIN messages :
        /\ msg.type = COMMIT_RECONFIG_REQUEST
        /\ msg.op \in {NODE_SWAP, EXPAND}
        /\ msg.node = msg.new_node
    /\ ~\E msg \in DOMAIN messages :
        /\ msg.type = PREPARE_RECONFIG_REQUEST
        /\ msg.op = CONTRACT
        /\ msg.node = msg.old_node

LegalLeaderAndEnsemble ==
    /\ IF metadata.leader # NIL
       THEN metadata.leader \in metadata.ensemble
       ELSE TRUE
    /\ \A o \in Operators :
        IF /\ operator_state[o].md # NIL_RECORD
           /\ operator_state[o].md.leader # NIL
        THEN operator_state[o].md.leader \in operator_state[o].md.ensemble
        ELSE TRUE
    /\ metadata.rep_factor = Cardinality(metadata.ensemble)

\* ------------------------------ properties

MinId(id1, id2) ==
    IF IsLowerOrEqualId(id1, id2) THEN id1 ELSE id2

CommitMonotone ==
    [][\A n \in Nodes :
        ( /\ node_state[n].status = LEADER
          /\ node_state'[n].status = LEADER )
        => IsLowerOrEqualId(node_state[n].commit_index,
                            node_state'[n].commit_index)]_vars

\* C6: no step lowers the term of any node.
MonotonicTerm ==
    [][\A n \in Nodes : node_state'[n].epoch >= node_state[n].epoch]_vars

LegalMetadata(md) ==
    /\ Cardinality(md.ensemble) = md.rep_factor
    /\ md.leader # NIL => md.leader \in md.ensemble

\* C7: the stored metadata holds exactly rep_factor ensemble nodes and,
\* when it names a leader, the leader is one of them; the same holds of the
\* local metadata copy of every operator.
EnsembleConsistency ==
    /\ LegalMetadata(metadata)
    /\ \A o \in Operators :
        operator_state[o].md # NIL_RECORD => LegalMetadata(operator_state[o].md)

\* C8: every step that changes the stored metadata is taken by a running
\* operator whose local metadata version equals the version of the store
\* before the step; an operator with a stale version never changes the
\* metadata, also when several operators run.
MetadataChangedByCurrentOperatorOnly ==
    [][(metadata' # metadata \/ metadata_version' # metadata_version)
        => \E o \in Operators :
            /\ operator_state'[o] # operator_state[o]
            /\ operator_state[o].status = RUNNING
            /\ operator_state[o].md_version = metadata_version]_vars

\* C9: no step of any operator lowers the term stored in the metadata, and
\* every start of an election and every start of a reconfiguration raises it
\* by exactly one.
MetadataTermMonotonic ==
    [][/\ metadata'.epoch >= metadata.epoch
       /\ ( \/ OperatorStartsElection
            \/ OperatorStartsNodeSwapReconfiguration
            \/ OperatorStartsExpandReconfiguration
            \/ OperatorStartsContractReconfiguration )
          => metadata'.epoch = metadata.epoch + 1]_vars

\* C10: the commit index of every node is at or below the node's head
\* index in every reachable state, also on a lagging follower that has just
\* appended an AddEntry whose commit index is ahead of the entry.
CommitIndexAtMostHeadIndex ==
    \A n \in Nodes :
        IsLowerOrEqualId(node_state[n].commit_index, node_state[n].head_index)

SentInStep(type) ==
    { m \in DOMAIN messages' :
        /\ m.type = type
        /\ \/ m \notin DOMAIN messages
           \/ messages'[m] > messages[m] }

ReceivedInStep(type) ==
    { m \in DOMAIN messages :
        /\ m.type = type
        /\ \/ m \notin DOMAIN messages'
           \/ messages'[m] < messages[m] }

HeadIsGreater(head1, head2) ==
    \/ head1.epoch > head2.epoch
    \/ /\ head1.epoch = head2.epoch
       /\ head1.offset > head2.offset

\* C12: whenever an operator sends BecomeLeader for an election, the chosen
\* node is a responder of the final ensemble, and no other collected fencing
\* response of a final ensemble node carries a head index that is greater,
\* by term and then offset, than the chosen node's.
ElectedLeaderHasGreatestHead ==
    [][\A m \in SentInStep(BECOME_LEADER_REQUEST) :
        LET responses == operator_state'[m.operator].election_fence_responses
            final     == operator_state'[m.operator].election_final_ensemble
        IN /\ m.node \in final
           /\ \E r \in responses :
                /\ r.node = m.node
                /\ \A r2 \in responses :
                    r2.node \in final => ~HeadIsGreater(r2.head_index, r.head_index)]_vars

\* C13: a BecomeLeader for term t is sent only when fencing responses for
\* term t have been collected from more than half of the nodes of the
\* fencing ensemble, each counted once; it is sent on the response that
\* completes this majority, without waiting for the remaining minority.
BecomeLeaderSentOnQuorum ==
    [][\A m \in SentInStep(BECOME_LEADER_REQUEST) :
        LET fencing_ensemble == operator_state'[m.operator].election_fencing_ensemble
            respondents == { r.node : r \in
                                { r1 \in operator_state'[m.operator].election_fence_responses :
                                    /\ r1.epoch = m.epoch
                                    /\ r1.node \in fencing_ensemble } }
        IN /\ 2 * Cardinality(respondents) > Cardinality(fencing_ensemble)
           /\ Cardinality(respondents) = (Cardinality(fencing_ensemble) \div 2) + 1]_vars

\* C14: a step that starts an election sends a fencing request of the new
\* term to every node of the fencing ensemble, which includes the new node
\* of a node swap or expand that the metadata holds in commit phase.
NewTermSentToFencingEnsemble ==
    [][(/\ metadata'.shard_status = ELECTION
        /\ metadata'.epoch = metadata.epoch + 1)
       => \A n \in FencingEnsemble :
            \E m \in SentInStep(FENCE_REQUEST) :
                /\ m.node = n
                /\ m.epoch = metadata'.epoch]_vars

\* C15: every BecomeLeader sent by an operator carries a rep_factor equal
\* to the size of the final ensemble of the election it belongs to.
BecomeLeaderCarriesFinalEnsembleSize ==
    [][\A m \in SentInStep(BECOME_LEADER_REQUEST) :
        m.rep_factor = Cardinality(operator_state'[m.operator].election_final_ensemble)]_vars

\* C16: an election resolves the reconfiguration the metadata holds when it
\* starts. The starting step clears a reconfiguration in prepare phase and
\* keeps one in commit phase; the completing step stores the ensemble with
\* the kept node swap or expand applied (the unchanged ensemble when none
\* was kept), a rep_factor equal to its size, and no reconfiguration.
ElectionResolvesReconfiguration ==
    [][/\ (/\ metadata'.shard_status = ELECTION
           /\ metadata'.epoch = metadata.epoch + 1)
          => /\ metadata'.ensemble = metadata.ensemble
             /\ metadata'.reconfig = IF /\ metadata.reconfig # NIL_RECORD
                                        /\ metadata.reconfig.phase = COMMIT
                                     THEN metadata.reconfig
                                     ELSE NIL_RECORD
       /\ (/\ metadata.shard_status = ELECTION
           /\ metadata'.shard_status = STEADY_STATE
           /\ metadata'.epoch = metadata.epoch)
          => /\ metadata'.reconfig = NIL_RECORD
             /\ metadata'.rep_factor = Cardinality(metadata'.ensemble)
             /\ metadata'.ensemble =
                    IF /\ metadata.reconfig # NIL_RECORD
                       /\ metadata.reconfig.op = NODE_SWAP
                    THEN (metadata.ensemble \ { metadata.reconfig.old_node })
                            \union { metadata.reconfig.new_node }
                    ELSE IF /\ metadata.reconfig # NIL_RECORD
                            /\ metadata.reconfig.op = EXPAND
                         THEN metadata.ensemble \union { metadata.reconfig.new_node }
                         ELSE metadata.ensemble]_vars

\* C17: an operator that is running with the up-to-date metadata of a
\* reconfiguration in commit phase and has no commit request or response of
\* its own in flight (it loaded the metadata when it started) brings the
\* reconfiguration to completion: the metadata returns to steady state
\* with the change applied, unless an election is started meanwhile.
LoadedCommitPhase(o) ==
    /\ operator_state[o].status = RUNNING
    /\ operator_state[o].md_version = metadata_version
    /\ metadata.shard_status = RECONFIGURATION
    /\ metadata.reconfig.phase = COMMIT
    /\ ~\E m \in DOMAIN messages :
        /\ m.type \in { COMMIT_RECONFIG_REQUEST, COMMIT_RECONFIG_RESPONSE }
        /\ m.operator = o
        /\ m.epoch = metadata.epoch

ContractCommitKeepsCommitIndex ==
    [][/\ \A m \in SentInStep(COMMIT_RECONFIG_RESPONSE) :
            m.op = CONTRACT =>
                LET nstate         == node_state[m.node]
                    updated_cursor == [n \in Nodes |->
                                        IF n = m.old_node
                                        THEN NoCursor
                                        ELSE nstate.follow_cursor[n]]
                IN /\ node_state'[m.node].rep_factor < nstate.rep_factor
                   /\ IsSameId(NewCommitIndex(nstate, updated_cursor, node_state'[m.node].rep_factor),
                               nstate.commit_index)
                   /\ node_state'[m.node].commit_index = nstate.commit_index
                   /\ node_state'[m.node].follow_cursor = updated_cursor
                   /\ node_state'[m.node].reconfig_inprog = FALSE
       /\ \A n \in Nodes :
            (/\ node_state[n].status = LEADER
             /\ node_state'[n].status = LEADER
             /\ node_state'[n].epoch = node_state[n].epoch
             /\ node_state'[n].rep_factor < node_state[n].rep_factor)
            => \E m \in SentInStep(COMMIT_RECONFIG_RESPONSE) :
                /\ m.op = CONTRACT
                /\ m.node = n]_vars

\* C19: a step that records a new reconfiguration in prepare phase is taken
\* by a running operator holding the current metadata version, from a
\* steady-state metadata with no reconfiguration and with a leader; a node
\* swap or contract removes an ensemble node other than the leader, a node
\* swap or expand adds a node outside the ensemble, a contract starts only
\* from a rep_factor above 3, and the stored rep_factor never drops below 3.
ReconfigurationStartsWhenAllowed ==
    [][/\ (/\ metadata'.reconfig # NIL_RECORD
           /\ metadata'.reconfig.phase = PREPARE
           /\ metadata'.reconfig # metadata.reconfig)
          => /\ metadata.shard_status = STEADY_STATE
             /\ metadata.reconfig = NIL_RECORD
             /\ metadata.leader \in metadata.ensemble
             /\ metadata'.shard_status = RECONFIGURATION
             /\ \E o \in Operators :
                 /\ operator_state[o].status = RUNNING
                 /\ operator_state[o].md_version = metadata_version
                 /\ operator_state[o].md = metadata
                 /\ operator_state'[o].md = metadata'
             /\ metadata'.reconfig.op \in { NODE_SWAP, CONTRACT }
                 => /\ metadata'.reconfig.old_node \in metadata.ensemble
                    /\ metadata'.reconfig.old_node # metadata.leader
             /\ metadata'.reconfig.op \in { NODE_SWAP, EXPAND }
                 => metadata'.reconfig.new_node \notin metadata.ensemble
             /\ metadata'.reconfig.op = CONTRACT
                 => metadata.rep_factor > 3
       /\ metadata'.rep_factor < metadata.rep_factor
          => metadata'.rep_factor >= 3]_vars

TruncateThenAppend ==
    [][/\ \A r \in SentInStep(TRUNCATE_RESPONSE) :
            \E req \in ReceivedInStep(TRUNCATE_REQUEST) :
                LET f    == req.dest_node
                    kept == { e \in node_state[f].log :
                                ~HeadIsGreater(e.entry_id, req.head_index) }
                IN /\ r.source_node = f
                   /\ node_state[f].status = FENCED
                   /\ node_state[f].epoch = req.epoch
                   /\ node_state'[f].status = FOLLOWER
                   /\ node_state'[f].log = kept
                   /\ \A e \in kept : ~HeadIsGreater(e.entry_id, node_state'[f].head_index)
                   /\ IF kept = {}
                      THEN node_state'[f].head_index = NoEntryId
                      ELSE \E e \in kept : e.entry_id = node_state'[f].head_index
                   /\ (\E e \in node_state[f].log : e.entry_id = req.head_index)
                        => node_state'[f].head_index = req.head_index
                   /\ r.head_index = node_state'[f].head_index
       /\ \A r \in SentInStep(ADD_ENTRY_RESPONSE) :
            r.code = OK =>
                \E req \in ReceivedInStep(ADD_ENTRY_REQUEST) :
                    LET f == req.dest_node
                    IN /\ r.source_node = f
                       /\ r.entry_id = req.entry.entry_id
                       /\ node_state'[f].log = node_state[f].log \union { req.entry }
                       /\ node_state'[f].head_index = req.entry.entry_id
                       /\ req.entry.entry_id.offset = node_state[f].head_index.offset + 1
                            => \A e \in node_state'[f].log :
                                ~HeadIsGreater(e.entry_id, node_state'[f].head_index)]_vars

\* C24: whenever a run of the trimmer passes an offset to Trim, every entry
\* from the first offset up to that offset has a timestamp at or before
\* the cutoff (now - retention), whatever the log holds.
TrimmedPrefixExpired ==
    [][(/\ wal # NoWal
        /\ wal'.trimmed # InvalidOffset
        /\ wal'.trimmed # wal.trimmed)
       => \A offset \in FirstOffset(wal)..wal'.trimmed :
            readAtOffset(wal, offset) <= CutoffTime(wal)]_vars

\* what binarySearch is to find in a log ordered by time
NonDecreasing(w, firstOffset, lastOffset) ==
    \A i, j \in firstOffset..lastOffset :
        i <= j => readAtOffset(w, i) <= readAtOffset(w, j)

LargestExpired(w, firstOffset, lastOffset, cutoffTime) ==
    CHOOSE o \in firstOffset..lastOffset :
        /\ readAtOffset(w, o) <= cutoffTime
        /\ \A p \in firstOffset..lastOffset :
            readAtOffset(w, p) <= cutoffTime => p <= o

\* C25: binarySearch ends for every first <= last of every log and, when
\* the timestamps do not decrease with the offset and the entry at first
\* is at or before the cutoff, returns the largest offset of [first, last]
\* whose entry is at or before the cutoff; doTrim leaves the log alone
\* (no Trim) when the log is empty or its first entry is after the cutoff.
BinarySearchFindsLargestExpired ==
    wal # NoWal =>
        /\ \A firstOffset, lastOffset \in FirstOffset(wal)..LastOffset(wal) :
            \A cutoffTime \in (0 - MaxRetention)..MaxNow :
                firstOffset <= lastOffset =>
                    LET found == binarySearch(wal, firstOffset, lastOffset, cutoffTime)
                    IN /\ found.terminated
                       /\ (/\ NonDecreasing(wal, firstOffset, lastOffset)
                           /\ readAtOffset(wal, firstOffset) <= cutoffTime)
                          => found.offset = LargestExpired(wal, firstOffset, lastOffset, cutoffTime)
        /\ (\/ LastOffset(wal) = InvalidOffset
            \/ CutoffTime(wal) < readAtOffset(wal, FirstOffset(wal)))
           => /\ doTrim(wal).trimmed = InvalidOffset
              /\ doTrim(wal).timestamps = wal.timestamps
              /\ doTrim(wal).first_offset = wal.first_offset
        /\ ~wal.hung

\* what the options passed to NewClientOptions are to yield
OptionIsValid(o) ==
    IF o.with = "WithBatchLinger"
    THEN o.value >= 0
    ELSE o.value > 0

OptionError(o) ==
    CASE o.with = "WithBatchLinger"         -> ErrorBatchLinger
      [] o.with = "WithMaxRequestsPerBatch" -> ErrorMaxRequestsPerBatch
      [] o.with = "WithBatchRequestTimeout" -> ErrorBatchRequestTimeout

LastValidValue(opts, with, default) ==
    LET given == { i \in 1..Len(opts) : opts[i].with = with /\ OptionIsValid(opts[i]) }
    IN IF given = {}
       THEN default
       ELSE opts[CHOOSE i \in given : \A j \in given : j <= i].value

InvalidOptions(opts) ==
    SelectSeq(opts, LAMBDA o : ~OptionIsValid(o))

\* C26: NewClientOptions starts from the defaults and applies the options
\* in order: each field holds the value of the last valid option given for
\* it (the default if none), an invalid option changes nothing and adds
\* its own error, the errors of all invalid options are returned in order,
\* and the returned options always have batchLinger >= 0,
\* maxRequestsPerBatch > 0 and batchRequestTimeout > 0.
NewClientOptionsSkipsInvalid ==
    (client # NoClient /\ client.result # NoClient) =>
        LET options == client.result.options
            errs    == client.result.errs
            invalid == InvalidOptions(client.opts)
        IN /\ options.batchLinger
                = LastValidValue(client.opts, "WithBatchLinger", DefaultBatchLinger)
           /\ options.maxRequestsPerBatch
                = LastValidValue(client.opts, "WithMaxRequestsPerBatch", DefaultMaxRequestsPerBatch)
           /\ options.batchRequestTimeout
                = LastValidValue(client.opts, "WithBatchRequestTimeout", DefaultBatchRequestTimeout)
           /\ errs = [i \in 1..Len(invalid) |-> OptionError(invalid[i])]
           /\ options.batchLinger >= 0
           /\ options.maxRequestsPerBatch > 0
           /\ options.batchRequestTimeout > 0
           /\ (client.opts = << >>) =>
                /\ options.batchLinger = 5
                /\ options.maxRequestsPerBatch = 1000
                /\ options.batchRequestTimeout = 30 * 1000

CommittableAfterStep(n) ==
    { entry.entry_id : entry \in
        { e \in node_state'[n].log :
            EntryIsCommitted(node_state'[n], e.entry_id,
                             node_state'[n].follow_cursor,
                             node_state'[n].rep_factor) } }

FollowerCommitIndexIsMax ==
    [][\A r \in SentInStep(ADD_ENTRY_RESPONSE) :
        r.code = OK =>
            \E m \in ReceivedInStep(ADD_ENTRY_REQUEST) :
                /\ m.dest_node = r.source_node
                /\ LET previous == node_state[r.source_node].commit_index
                   IN node_state'[r.source_node].commit_index
                        = IF IsHigherId(m.commit_index, previous)
                          THEN m.commit_index
                          ELSE previous]_vars

\* C30: every AddEntryResponse, Ok or InvalidTerm, carries the term of the
\* AddEntry request it answers, also when the follower's own term was
\* below the request's term.
AddEntryResponseCarriesRequestTerm ==
    [][\A r \in SentInStep(ADD_ENTRY_RESPONSE) :
        \E m \in ReceivedInStep(ADD_ENTRY_REQUEST) :
            /\ m.dest_node = r.source_node
            /\ m.source_node = r.dest_node
            /\ r.epoch = m.epoch]_vars

\* the node a message is addressed to, for the messages nodes handle
NodeMessageTypes ==
    { FENCE_REQUEST, BECOME_LEADER_REQUEST, ADD_FOLLOWER_REQUEST,
      TRUNCATE_REQUEST, TRUNCATE_RESPONSE, ADD_ENTRY_REQUEST, ADD_ENTRY_RESPONSE,
      PREPARE_RECONFIG_REQUEST, SNAPSHOT_REQUEST, COMMIT_RECONFIG_REQUEST }

Receiver(m) ==
    IF m.type \in { TRUNCATE_REQUEST, TRUNCATE_RESPONSE, ADD_ENTRY_REQUEST, ADD_ENTRY_RESPONSE }
    THEN m.dest_node
    ELSE m.node

NodeReceivedInStep ==
    UNION { ReceivedInStep(type) : type \in NodeMessageTypes }

\* C31: a message whose term is lower than the term of the node it is
\* addressed to never changes that node's state when it is taken out of
\* flight, whatever its type; a stale AddEntry is answered with an
\* InvalidTerm AddEntryResponse.
StaleMessageChangesNothing ==
    [][\A m \in NodeReceivedInStep :
        m.epoch < node_state[Receiver(m)].epoch =>
            /\ node_state'[Receiver(m)] = node_state[Receiver(m)]
            /\ m.type = ADD_ENTRY_REQUEST =>
                \E r \in SentInStep(ADD_ENTRY_RESPONSE) :
                    /\ r.code = INVALID_EPOCH
                    /\ r.dest_node = m.source_node
                    /\ r.source_node = m.dest_node
                    /\ r.entry_id = m.entry.entry_id]_vars

\* C32: a message other than NewTerm (fence request) or Snapshot whose
\* term is higher than the term of the node it is addressed to leaves that
\* node's state unchanged when it is taken out of flight; only a NewTerm
\* or a Snapshot of a higher term advances a node's term.
OnlyNewTermOrSnapshotAdvancesTerm ==
    [][/\ \A m \in NodeReceivedInStep :
            (/\ m.type \notin { FENCE_REQUEST, SNAPSHOT_REQUEST }
             /\ m.epoch > node_state[Receiver(m)].epoch)
            => node_state'[Receiver(m)] = node_state[Receiver(m)]
       /\ \A n \in Nodes :
            node_state'[n].epoch > node_state[n].epoch =>
                \E m \in ReceivedInStep(FENCE_REQUEST) \union ReceivedInStep(SNAPSHOT_REQUEST) :
                    /\ m.node = n
                    /\ m.epoch = node_state'[n].epoch]_vars

\* a node that gave up leadership on a rejected entry and has handled no
\* new term since: it is Fenced and still holds the replication factor of
\* its reign (a fence request resets it)
Abdicated(n) ==
    /\ node_state[n].status = FENCED
    /\ node_state[n].rep_factor # 0

AbdicatedInStep(n) ==
    \E m \in ReceivedInStep(ADD_ENTRY_RESPONSE) :
        /\ m.code = INVALID_EPOCH
        /\ m.dest_node = n
        /\ m.epoch = node_state[n].epoch
        /\ node_state[n].status = LEADER

GreatestEntryIdUpToTerm(lstate, term) ==
    LET ids == { entry.entry_id : entry \in { e \in lstate.log : e.entry_id.epoch <= term } }
    IN IF ids = {}
       THEN NoEntryId
       ELSE CHOOSE id \in ids : \A other \in ids : IsLowerOrEqualId(other, id)

CursorCreatedForHead(leader, f, H) ==
    LET lstate    == node_state[leader]
        cursor    == node_state'[leader].follow_cursor[f]
        truncates == { t \in SentInStep(TRUNCATE_REQUEST) :
                        t.source_node = leader /\ t.dest_node = f }
    IN IF H.epoch = lstate.head_index.epoch /\ H.offset <= lstate.head_index.offset
       THEN /\ cursor.status = ATTACHED
            /\ cursor.last_pushed = H
            /\ cursor.last_confirmed = H
            /\ truncates = {}
       ELSE /\ cursor.status = PENDING_TRUNCATE
            /\ Cardinality(truncates) = 1
            /\ \A t \in truncates :
                /\ t.head_index = GreatestEntryIdUpToTerm(lstate, H.epoch)
                /\ t.epoch = lstate.epoch
                /\ messages'[t] = (IF t \in DOMAIN messages THEN messages[t] ELSE 0) + 1

\* C34: when a leader creates a cursor for a follower that reported head
\* H (on BecomeLeader or AddFollower), the cursor is Attached at H without
\* a Truncate if H has the term of the leader's head and an offset not
\* above it; otherwise it is PendingTruncate and one Truncate is sent with
\* the greatest entry id of the leader's log of a term <= H.term, or (0,0).
\* Entries are sent to Attached cursors only.
CursorCreationFollowsReportedHead ==
    [][/\ \A m \in ReceivedInStep(BECOME_LEADER_REQUEST) :
            node_state'[m.node].status = LEADER /\ node_state[m.node].epoch = m.epoch =>
                \A f \in Nodes :
                    m.follower_map[f] # NIL_RECORD =>
                        CursorCreatedForHead(m.node, f, m.follower_map[f])
       /\ \A m \in ReceivedInStep(ADD_FOLLOWER_REQUEST) :
            (/\ node_state[m.node].status = LEADER
             /\ node_state[m.node].epoch = m.epoch
             /\ node_state[m.node].follow_cursor[m.follower] = NoCursor)
            => CursorCreatedForHead(m.node, m.follower, m.head_index)
       /\ \A a \in SentInStep(ADD_ENTRY_REQUEST) :
            node_state[a.source_node].follow_cursor[a.dest_node].status = ATTACHED]_vars

\* C35: every follower in the follower map of a BecomeLeader has a head
\* index lower than or equal to the head index of the node made leader,
\* and the new leader sends no Truncate when it handles BecomeLeader.
FencingQuorumNeedsNoTruncation ==
    [][\A m \in ReceivedInStep(BECOME_LEADER_REQUEST) :
        node_state'[m.node].status = LEADER /\ node_state[m.node].epoch = m.epoch =>
            /\ \A f \in Nodes :
                m.follower_map[f] # NIL_RECORD =>
                    IsLowerOrEqualId(m.follower_map[f], node_state[m.node].head_index)
            /\ SentInStep(TRUNCATE_REQUEST) = {}]_vars

\* C36: the head index of every node is the greatest entry id in its log,
\* or (0,0) when its log is empty.
HeadIndexIsGreatestEntry ==
    \A n \in Nodes :
        IF node_state[n].log = {}
        THEN node_state[n].head_index = NoEntryId
        ELSE /\ \E entry \in node_state[n].log :
                    entry.entry_id = node_state[n].head_index
             /\ \A entry \in node_state[n].log :
                    IsLowerOrEqualId(entry.entry_id, node_state[n].head_index)

\* C37: when a CommitReconfig(Contract) of the leader's term is in flight
\* for a leader that prepared the contract, and the Attached cursors that
\* remain without the removed node give a quorum at the new replication
\* factor for the leader's commit index c and for no entry above c, the
\* leader accepts the commit: the commit index recomputed without the
\* removed node is c.
ContractCommitAcceptedWhenSafe ==
    \A msg \in DOMAIN messages :
        (/\ ReceivableMessageOfType(messages, msg, COMMIT_RECONFIG_REQUEST)
         /\ msg.op = CONTRACT
         /\ node_state[msg.node].status = LEADER
         /\ node_state[msg.node].epoch = msg.epoch
         /\ node_state[msg.node].reconfig_inprog = TRUE
         /\ node_state[msg.node].follow_cursor[msg.old_node].status = PENDING_REMOVAL)
        => LET nstate    == node_state[msg.node]
               remaining == [n \in Nodes |->
                                IF n = msg.old_node
                                THEN NoCursor
                                ELSE nstate.follow_cursor[n]]
               atQuorum(id) ==
                    Cardinality({ n \in Nodes :
                                    /\ remaining[n].status = ATTACHED
                                    /\ IsLowerOrEqualId(id, remaining[n].last_confirmed) })
                        >= (msg.rep_factor \div 2)
           IN (/\ atQuorum(nstate.commit_index)
               /\ \A entry \in nstate.log :
                    IsHigherId(entry.entry_id, nstate.commit_index) => ~atQuorum(entry.entry_id))
              => IsSameId(NewCommitIndex(nstate, remaining, msg.rep_factor), nstate.commit_index)

\* C38: a follow cursor becomes Attached only from no cursor (BecomeLeader,
\* AddFollower, CommitReconfig for the new node) or from PendingTruncate
\* (TruncateResponse); a TruncateResponse never attaches a PendingRemoval
\* or absent cursor and never moves last_pushed or last_confirmed of an
\* Attached cursor backwards.
CursorAttachesFromAbsentOrPendingTruncate ==
    [][\A n, f \in Nodes :
        LET before == node_state[n].follow_cursor[f]
            after  == node_state'[n].follow_cursor[f]
            truncated == \E m \in ReceivedInStep(TRUNCATE_RESPONSE) :
                            m.dest_node = n /\ m.source_node = f
        IN /\ (after.status = ATTACHED /\ before.status # ATTACHED) =>
                \/ /\ before.status = NIL
                   /\ ~truncated
                \/ /\ before.status = PENDING_TRUNCATE
                   /\ truncated
           /\ (truncated /\ before.status = ATTACHED /\ after.status = ATTACHED) =>
                /\ IsLowerOrEqualId(before.last_pushed, after.last_pushed)
                /\ IsLowerOrEqualId(before.last_confirmed, after.last_confirmed)
           /\ (truncated /\ before.status \in { NIL, PENDING_REMOVAL }) =>
                after = before]_vars

\* C39: whenever the metadata is in steady state with leader L and L is in
\* Leader status at the term of the metadata, the rep_factor of L equals the
\* size of the ensemble of the metadata.
LeaderRepFactorIsEnsembleSize ==
    \A n \in Nodes :
        /\ metadata.shard_status = STEADY_STATE
        /\ metadata.leader = n
        /\ node_state[n].status = LEADER
        /\ node_state[n].epoch = metadata.epoch
        => node_state[n].rep_factor = Cardinality(metadata.ensemble)

\* C40: a node whose reconfig_inprog flag is set is in Leader status.
ReconfigInProgressOnlyOnLeader ==
    \A n \in Nodes :
        node_state[n].reconfig_inprog => node_state[n].status = LEADER

\* ------------------------------ reachable cases of the properties

TermsRaisedWithOlderRequestInFlight ==
    /\ \E n \in Nodes : node_state[n].epoch >= 2
    /\ \E msg \in DOMAIN messages :
        /\ msg.type \in { FENCE_REQUEST, ADD_ENTRY_REQUEST, SNAPSHOT_REQUEST }
        /\ msg.epoch < node_state[IF msg.type = ADD_ENTRY_REQUEST
                                  THEN msg.dest_node ELSE msg.node].epoch

\* a completed expand or contract has changed the replication factor, the
\* metadata names a leader and a running operator holds the new metadata
ReconfigurationChangedRepFactor ==
    /\ metadata.shard_status = STEADY_STATE
    /\ metadata.leader # NIL
    /\ metadata.rep_factor # scenario.rep_factor
    /\ \E o \in Operators :
        /\ operator_state[o].status = RUNNING
        /\ operator_state[o].md = metadata

LeaderChosenAmongDifferentHeads ==
    \E m \in DOMAIN messages :
        /\ m.type = BECOME_LEADER_REQUEST
        /\ operator_state[m.operator].election_phase = NOTIFY_LEADER
        /\ operator_state[m.operator].election_leader = m.node
        /\ \E r1, r2 \in operator_state[m.operator].election_fence_responses :
            /\ r1.node \in operator_state[m.operator].election_final_ensemble
            /\ r2.node \in operator_state[m.operator].election_final_ensemble
            /\ r1.head_index # r2.head_index

\* a BecomeLeader is in flight while a node of the fencing ensemble has not
\* yet handled the fencing request of the same election
BecomeLeaderSentBeforeLastResponse ==
    \E m \in DOMAIN messages, req \in DOMAIN messages :
        /\ m.type = BECOME_LEADER_REQUEST
        /\ req.type = FENCE_REQUEST
        /\ req.operator = m.operator
        /\ req.epoch = m.epoch
        /\ req.node \in operator_state[m.operator].election_fencing_ensemble
        /\ operator_state[m.operator].election_phase = NOTIFY_LEADER

\* an election has completed after applying an interrupted node swap: the
\* operator fenced the ensemble with the new node, elected among the
\* swapped ensemble, and the metadata holds the swapped ensemble
ElectionAppliedInterruptedNodeSwap ==
    \E o \in Operators :
        /\ operator_state[o].status = RUNNING
        /\ operator_state[o].election_phase = LEADER_ELECTED
        /\ operator_state[o].md_version = metadata_version
        /\ operator_state[o].election_final_ensemble # operator_state[o].election_fencing_ensemble
        /\ metadata.shard_status = STEADY_STATE
        /\ metadata.ensemble = operator_state[o].election_final_ensemble
        /\ metadata.reconfig = NIL_RECORD

\* a leader holding an entry has finalized a contract: its answer is in
\* flight, the cursor of the removed node is gone and rep_factor is lowered
LeaderFinalizedContractWithEntry ==
    \E m \in DOMAIN messages :
        /\ m.type = COMMIT_RECONFIG_RESPONSE
        /\ m.op = CONTRACT
        /\ node_state[m.node].status = LEADER
        /\ node_state[m.node].epoch = m.epoch
        /\ node_state[m.node].reconfig_inprog = FALSE
        /\ node_state[m.node].follow_cursor[m.old_node] = NoCursor
        /\ node_state[m.node].rep_factor = RepFactor
        /\ node_state[m.node].head_index.offset > 0

\* a contract has been started on an ensemble of more than three nodes
ContractStartedAboveMinimum ==
    /\ metadata.shard_status = RECONFIGURATION
    /\ metadata.reconfig # NIL_RECORD
    /\ metadata.reconfig.op = CONTRACT
    /\ metadata.reconfig.phase = PREPARE
    /\ metadata.rep_factor > 3
    /\ metadata.reconfig.old_node \in metadata.ensemble

TruncatedFollowerAppendedEntry ==
    \E v \in DOMAIN confirmed :
        /\ \A n \in Nodes : \A e \in node_state[n].log : e.value # v
        /\ metadata.shard_status = STEADY_STATE
        /\ metadata.epoch > 1
        /\ \A f \in metadata.ensemble \ { metadata.leader } :
            /\ node_state[f].status = FOLLOWER
            /\ node_state[f].epoch = metadata.epoch
            /\ node_state[f].log # {}
            /\ node_state[f].head_index = node_state[metadata.leader].head_index
            /\ node_state[f].head_index.epoch = metadata.epoch

\* C25: a run of the trimmer stopped inside a log of non-decreasing
\* timestamps: it trimmed at least two entries and left at least two, all
\* of them after the cutoff
TrimmerStoppedInsideLog ==
    /\ wal # NoWal
    /\ wal.trimmed >= wal.first_offset - 1
    /\ wal.trimmed >= 1
    /\ wal.first_offset = wal.trimmed + 1
    /\ Len(wal.timestamps) >= 2
    /\ NonDecreasing(wal, FirstOffset(wal), LastOffset(wal))
    /\ \A offset \in FirstOffset(wal)..LastOffset(wal) :
        readAtOffset(wal, offset) > CutoffTime(wal)

\* C26: NewClientOptions returned after an invalid option was followed by
\* a valid one for another field, which took effect next to the error
InvalidOptionThenValidApplied ==
    /\ client # NoClient
    /\ client.result # NoClient
    /\ \E i, j \in 1..Len(client.opts) :
        /\ i < j
        /\ ~OptionIsValid(client.opts[i])
        /\ client.opts[i].with = "WithMaxRequestsPerBatch"
        /\ client.opts[j].with = "WithBatchRequestTimeout"
        /\ OptionIsValid(client.opts[j])
        /\ client.result.options.batchRequestTimeout = client.opts[j].value
        /\ client.result.options.maxRequestsPerBatch = DefaultMaxRequestsPerBatch
    /\ Len(client.result.errs) >= 1

StaleAddEntryRejected ==
    /\ \E r \in DOMAIN messages :
        /\ r.type = ADD_ENTRY_RESPONSE
        /\ r.code = INVALID_EPOCH
        /\ messages[r] > 0
        /\ node_state[r.source_node].epoch > r.epoch
    /\ \E m \in DOMAIN messages :
        /\ m.type = FENCE_REQUEST
        /\ messages[m] > 0
        /\ m.epoch < node_state[m.node].epoch

LeaderCreatedPendingTruncateCursor ==
    \E n, f, g \in Nodes :
        /\ node_state[n].status = LEADER
        /\ node_state[n].follow_cursor[f].status = PENDING_TRUNCATE
        /\ node_state[n].follow_cursor[g].status = ATTACHED
        /\ node_state[f].head_index.epoch # node_state[n].head_index.epoch
        /\ \E t \in DOMAIN messages :
            /\ t.type = TRUNCATE_REQUEST
            /\ messages[t] > 0
            /\ t.source_node = n
            /\ t.dest_node = f
            /\ IsLowerId(t.head_index, node_state[f].head_index)

=============================================================================
